---- MODULE Spec2Model ----
(***************************************************************************)
(* A model of parser-tml: the syntax tree of a TM program (Context), the   *)
(* validator (CodeValidator), the compiler to a Turing machine             *)
(* (CodeConverter), the tape (TMTape) and the interpreter (CodeExecutor).  *)
(* The state machine is one interpreter run, stepped by execute(), next to *)
(* a run of the compiled machine on a tape of its own.                     *)
(***************************************************************************)
EXTENDS Integers, Sequences, FiniteSets, TLC

\* ------------------------------------------------------------------------
\* Bounds of the model
\* ------------------------------------------------------------------------

\* longest initial tape string given to the constructor
MaxTapeLen == 2

\* number of execute() calls followed in one run
MaxSteps == 5

\* the number of change and move calls made on a tape on its own
MaxTapeOps == 3

\* the number of command lines in the body of a case given to the parser
MaxBodyLines == 3

\* nesting of visitModule calls the converter may reach; a goto met at this
\* depth whose module is not constructed marks the conversion unfinished,
\* which stands for a convert() that does not return
MaxDepth == 4

\* ------------------------------------------------------------------------
\* Values of the syntax tree (Context.ts)
\* ------------------------------------------------------------------------

\* an absent optional (JavaScript undefined): a string that is no token of
\* the lexer (a parenthesis is a token of its own), so that no command, value
\* or identifier of a parsed program is taken for it
Undefined == "(undefined)"

\* blank is the empty string in value lists
Blank == ""

LEFT == "left"
RIGHT == "right"
START == "start"
END == "end"

ACCEPT == "accept"
REJECT == "reject"
HALT == "halt"

TerminationStates == {ACCEPT, REJECT, HALT}

NoFlow == [type |-> "none", state |-> "", identifier |-> "", args |-> <<>>]

Termination(s) == [type |-> "term", state |-> s, identifier |-> "", args |-> <<>>]

GoTo(id, args) == [type |-> "goto", state |-> "", identifier |-> id, args |-> args]

BasicBlock(c, d, f) ==
    [type |-> "basic", changeTo |-> c, move |-> d, flow |-> f, cases |-> <<>>]

CoreBasicBlock(c, d) ==
    [type |-> "core", changeTo |-> c, move |-> d, flow |-> NoFlow, cases |-> <<>>]

SwitchBlock(cs) ==
    [type |-> "switch", changeTo |-> Undefined, move |-> Undefined, flow |-> NoFlow,
     cases |-> cs]

IfCase(vs, bs) == [type |-> "if", values |-> vs, blocks |-> bs]

WhileCase(vs, b) == [type |-> "while", values |-> vs, blocks |-> <<b>>]

ElseCase(bs) == [type |-> "else", values |-> <<>>, blocks |-> bs]

Module(id, ps, bs) == [identifier |-> id, params |-> ps, blocks |-> bs]

Program(al, ms) == [alphabet |-> al, modules |-> ms]

\* ------------------------------------------------------------------------
\* Small helpers: sequences, JavaScript Map (insertion ordered), join
\* ------------------------------------------------------------------------

Range(s) == {s[i] : i \in 1..Len(s)}

Last(s) == s[Len(s)]

Front(s) == SubSeq(s, 1, Len(s) - 1)

SetTop(s, v) == [s EXCEPT ![Len(s)] = v]

RECURSIVE Join(_)
\* Array.prototype.join(",")
Join(s) ==
    IF Len(s) = 0 THEN ""
    ELSE IF Len(s) = 1 THEN s[1]
    ELSE s[1] \o "," \o Join(Tail(s))

\* a string that may be undefined: <<s>> for the string s, <<>> for undefined
Some(s) == <<s>>

None == <<>>

\* a Map<string,string> is the sequence of its entries in insertion order;
\* an entry is <<key, value>>, the key and the value each a string that may
\* be undefined (set(params[i], args[i]) past the end of params)
EmptyMap == <<>>

MapHas(m, k) == \E i \in 1..Len(m) : m[i][1] = Some(k)

\* Map.get(k) when the map has the key k and the value is not undefined
MapDefined(m, k) == \E i \in 1..Len(m) : m[i][1] = Some(k) /\ m[i][2] # None

MapGet(m, k) ==
    IF MapDefined(m, k)
    THEN m[CHOOSE i \in 1..Len(m) : m[i][1] = Some(k)][2][1]
    ELSE Undefined

\* Map.set with a key and a value that may be undefined
MapStore(m, key, value) ==
    IF \E i \in 1..Len(m) : m[i][1] = key
    THEN [i \in 1..Len(m) |-> IF m[i][1] = key THEN <<key, value>> ELSE m[i]]
    ELSE Append(m, <<key, value>>)

MapSet(m, k, v) == MapStore(m, Some(k), Some(v))

MapKeys(m) == [i \in 1..Len(m) |-> IF m[i][1] = None THEN Undefined ELSE m[i][1][1]]

MapValues(m) == [i \in 1..Len(m) |-> IF m[i][2] = None THEN Undefined ELSE m[i][2][1]]

\* Array(...map.keys()).join(","): join writes nothing for undefined
JoinKeys(m) == Join([i \in 1..Len(m) |-> IF m[i][1] = None THEN "" ELSE m[i][1][1]])

\* a Map<string, T> keyed by labels is a function on a finite set of strings
FnGet(f, k, default) == IF k \in DOMAIN f THEN f[k] ELSE default

FnSet(f, k, v) == [x \in (DOMAIN f) \cup {k} |-> IF x = k THEN v ELSE f[x]]

EmptyFn == [x \in {} |-> 0]

\* ------------------------------------------------------------------------
\* TMTape
\* ------------------------------------------------------------------------

\* the 25 white space and line terminator characters String.prototype.trim()
\* strips. The six of them in ASCII are written as they are: space, tab,
\* line feed, carriage return, form feed and, as the character itself,
\* vertical tab (U+000B). How the bytes of a character beyond ASCII are read
\* depends on the locale of the run, and most of these characters cannot be
\* written in a string of this language at all; so a character beyond ASCII
\* is written as its name, a backslash, u and the four hexadecimal digits of
\* its code (U+00A0, U+1680, U+2000 to U+200A, U+2028, U+2029, U+202F,
\* U+205F, U+3000, U+FEFF), and the name stands for the one character
\* wherever a character is expected (a cell of a tape string, a letter)
WhitespaceChars ==
    {" ", "\t", "\n", "\r", "\f", "",
     "\\u00a0", "\\u1680", "\\u2000", "\\u2001", "\\u2002", "\\u2003", "\\u2004",
     "\\u2005", "\\u2006", "\\u2007", "\\u2008", "\\u2009", "\\u200a", "\\u2028",
     "\\u2029", "\\u202f", "\\u205f", "\\u3000", "\\ufeff"}

RECURSIVE IsWhitespace(_)
\* ch.trim().length === 0: ch is made of stripped characters only (also true
\* of the empty string)
IsWhitespace(ch) ==
    \/ ch = ""
    \/ \E w \in WhitespaceChars :
          /\ Len(w) <= Len(ch)
          /\ SubSeq(ch, 1, Len(w)) = w
          /\ IsWhitespace(SubSeq(ch, Len(w) + 1, Len(ch)))

\* new TMTape(value): the non-blank characters, indexed from 0
TapeOf(value) ==
    [i \in {j \in 0..(Len(value) - 1) : ~IsWhitespace(value[j + 1])} |-> value[i + 1]]

MinOf(S) == CHOOSE x \in S : \A y \in S : x <= y

MaxOf(S) == CHOOSE x \in S : \A y \in S : x >= y

\* a variant of _minIndex that is 0 for every tape
MinIndex_Zero(valueMap) == 0

MinIndex(valueMap) == IF DOMAIN valueMap = {} THEN 0 ELSE MinOf(DOMAIN valueMap)

MaxIndex(valueMap) == IF DOMAIN valueMap = {} THEN 0 ELSE MaxOf(DOMAIN valueMap)

\* TMTape.get(0)
TapeGet(valueMap, currentIndex) ==
    IF currentIndex \in DOMAIN valueMap THEN valueMap[currentIndex] ELSE Blank

\* TMTape.change(letter)
TapeChange(valueMap, currentIndex, letter) ==
    IF letter = Blank \/ IsWhitespace(letter)
    THEN [i \in (DOMAIN valueMap) \ {currentIndex} |-> valueMap[i]]
    ELSE [i \in (DOMAIN valueMap) \cup {currentIndex} |->
            IF i = currentIndex THEN letter ELSE valueMap[i]]

\* TMTape.move(direction)
TapeMove(valueMap, currentIndex, direction) ==
    CASE direction = LEFT -> currentIndex - 1
      [] direction = START -> MinIndex(valueMap)
      [] direction = END -> MaxIndex(valueMap)
      [] OTHER -> currentIndex + 1

\* ------------------------------------------------------------------------
\* Context methods used by the compiler and the interpreter
\* ------------------------------------------------------------------------

\* CaseContext.firstBlock: the first block of an if/else body, the core block
\* of a while case
FirstBlock(case) == case.blocks[1]

\* CaseContext.applies(letter, argumentMap): an else case applies to every
\* letter; an if/while case applies when the letter is one of its values or
\* the map leads from the letter to one of its values
Applies(case, letter, argumentMap) ==
    \/ case.type = "else"
    \/ letter \in Range(case.values)
    \/ MapDefined(argumentMap, letter) /\ MapGet(argumentMap, letter) \in Range(case.values)

\* ChangeToContext.getNextValue(argumentMap)
GetNextValue(value, argumentMap) ==
    IF MapHas(argumentMap, value) THEN MapGet(argumentMap, value) ELSE value

\* ------------------------------------------------------------------------
\* TuringMachine: states and their transitions
\* ------------------------------------------------------------------------

\* IncompleteTMChange: letter and direction may be undefined
TMChange(nextState, letter, direction) ==
    [nextState |-> nextState, letter |-> letter, direction |-> direction]

\* the change with its defaults filled for the letter read
CompleteChange(change, letter) ==
    [nextState |-> change.nextState,
     letter |-> IF change.letter = Undefined THEN letter ELSE change.letter,
     direction |-> IF change.direction = Undefined THEN LEFT ELSE change.direction]

\* new ConstantTMState(label, alphabet, change)
ConstantTMState(id, label, alphabet, change) ==
    [id |-> id, label |-> label, kind |-> "constant",
     trans |-> [l \in alphabet \cup {Blank} |-> CompleteChange(change, l)]]

\* new VariableTMState(label)
VariableTMState(id, label) ==
    [id |-> id, label |-> label, kind |-> "variable", trans |-> EmptyFn]

\* VariableTMState.addTransition(letter, change)
AddTransition(trans, letter, change) == FnSet(trans, letter, CompleteChange(change, letter))

\* ------------------------------------------------------------------------
\* CodeConverter: the fields of the converter, threaded through the visit
\* ------------------------------------------------------------------------

\* new CodeConverter(program)
NewConverter ==
    [states |-> EmptyFn,          \* TuringMachine: label -> state
     added |-> <<>>,              \* labels in the order of addState
     visited |-> <<>>,            \* <<identifier, args>> of each visitModule
     nextId |-> 0,
     initialState |-> Undefined,
     currentBlocksStack |-> <<>>,
     currentBlockIndexStack |-> <<>>,
     argumentMapStack |-> <<>>,
     identifierStack |-> <<>>,
     constructedModules |-> EmptyFn,
     identifierIndexMap |-> EmptyFn,
     depth |-> 0,
     unfinished |-> FALSE]

CurrentArgumentMap(cv) == Last(cv.argumentMapStack)

CurrentArgs(cv) == MapValues(CurrentArgumentMap(cv))

CurrentIdentifier(cv) == Last(cv.identifierStack)

\* the label of a module invocation or sub-sequence: identifier, then "-" and
\* the joined arguments when there are any
ModuleLabelOf(identifier, args) ==
    IF Len(args) = 0 THEN identifier ELSE identifier \o "-" \o Join(args)

\* _pushBlocks
ConvPushBlocks(cv, blocks, identifier, isModule) ==
    [cv EXCEPT !.currentBlocksStack = Append(@, blocks),
               !.currentBlockIndexStack = Append(@, 0),
               !.identifierStack = Append(@, identifier),
               !.argumentMapStack = IF isModule THEN @ ELSE Append(@, Last(@))]

\* _popBlocks
ConvPopBlocks(cv) ==
    [cv EXCEPT !.currentBlocksStack = Front(@),
               !.currentBlockIndexStack = Front(@),
               !.argumentMapStack = Front(@),
               !.identifierStack = Front(@)]

\* _generateNextLabel: the counter of the label moves on by one
GenerateNextLabel(cv, identifier, args, startWith) ==
    LET moduleIdentifier == ModuleLabelOf(identifier, args)
        i == FnGet(cv.identifierIndexMap, moduleIdentifier, startWith - 1)
    IN [cv |-> [cv EXCEPT !.identifierIndexMap = FnSet(@, moduleIdentifier, i + 1)],
        label |-> moduleIdentifier \o "-" \o ToString(i + 1)]

\* a variant of _incrementIndex that moves the index on and leaves the
\* counter of the label where it is
ConvIncrementIndex_SameLabel(cv) ==
    [cv EXCEPT !.currentBlockIndexStack = SetTop(@, Last(@) + 1)]

\* _incrementIndex
ConvIncrementIndex(cv) ==
    GenerateNextLabel(
        [cv EXCEPT !.currentBlockIndexStack = SetTop(@, Last(@) + 1)],
        CurrentIdentifier(cv), CurrentArgs(cv), 0).cv

\* number.toString() of a counter read from identifierIndexMap
CounterString(cv, moduleLabel, plus) ==
    IF moduleLabel \in DOMAIN cv.identifierIndexMap
    THEN ToString(cv.identifierIndexMap[moduleLabel] + plus)
    ELSE "NaN"

\* _getCurrentLabel(addArgs)
GetCurrentLabel(cv, addArgs) ==
    LET args == CurrentArgs(cv)
        moduleLabel == ModuleLabelOf(CurrentIdentifier(cv), args)
        showLabel == IF Len(args) = 0 \/ ~addArgs THEN CurrentIdentifier(cv) ELSE moduleLabel
    IN showLabel \o "-" \o CounterString(cv, moduleLabel, 0)

\* _findNextLabel(n): n counts the stacks from 1 here
FindNextLabel(cv, n) ==
    LET moduleLabel == cv.identifierStack[n] \o JoinKeys(cv.argumentMapStack[n])
    IN moduleLabel \o "-" \o CounterString(cv, moduleLabel, 1)

\* _incrementIndexAndFindNextState: the innermost level of the stack whose
\* index is not at its last block, or undefined
IncrementIndexAndFindNextState(cv) ==
    LET levels == {i \in 1..Len(cv.currentBlocksStack) :
                     cv.currentBlockIndexStack[i] + 1 < Len(cv.currentBlocksStack[i])}
    IN IF levels = {} THEN Undefined ELSE FindNextLabel(cv, MaxOf(levels))

\* _generateAndPushArgumentMap of the converter: parameter -> argument
ConvArgumentMap(params, args, i, m) ==
    MapStore(m, IF i <= Len(params) THEN Some(params[i]) ELSE None, Some(args[i]))

RECURSIVE ConvBuildArgumentMap(_, _, _, _)
ConvBuildArgumentMap(params, args, i, m) ==
    IF i > Len(args) THEN m
    ELSE ConvBuildArgumentMap(params, args, i + 1, ConvArgumentMap(params, args, i, m))

ConvGenerateAndPushArgumentMap(cv, params, args) ==
    [cv EXCEPT !.argumentMapStack = Append(@, ConvBuildArgumentMap(params, args, 1, EmptyMap))]

\* _isModuleConstructed
IsModuleConstructed(cv, identifier, args) ==
    LET constructed == FnGet(cv.constructedModules, identifier, <<>>)
    IN \E i \in 1..Len(constructed) :
          \A j \in 1..Len(constructed[i]) :
             j <= Len(args) /\ constructed[i][j] = args[j]

\* TuringMachine.addState
AddState(cv, state) ==
    [cv EXCEPT !.states = FnSet(@, state.label, state),
               !.added = Append(@, state.label),
               !.nextId = @ + 1]

\* _idToModule.get(identifier): visitProgram sets the entry of every module in
\* turn, so the last module of the name is the one found
ModuleOf(program, identifier) ==
    program.modules[MaxOf({i \in 1..Len(program.modules) :
                             program.modules[i].identifier = identifier})]

\* the label a goto command returns
GoToLabel(command) == ModuleLabelOf(command.identifier, command.args) \o "-0"

\* the tag of an if case in the label of its sub-sequence
IfExtraLabel(values) == Join([i \in 1..Len(values) |-> IF values[i] = Blank THEN "blank" ELSE values[i]])

\* ------------------------------------------------------------------------
\* CodeConverter: the visit of the syntax tree
\* ------------------------------------------------------------------------

\* CodeVisitor.visit(context): the dispatch to the handler of the node kind;
\* the result is the converter after the visit and the label returned
RECURSIVE Visit(_, _, _, _)

Visited(cv, label) == [cv |-> cv, label |-> label]

\* visitGoTo: the module is visited unless it was constructed with these
\* arguments; the label is that of the first block of the invocation
VisitGoTo(cv, program, command) ==
    LET module == ModuleOf(program, command.identifier)
    IN IF IsModuleConstructed(cv, module.identifier, command.args)
       THEN Visited(cv, GoToLabel(command))
       ELSE IF cv.depth >= MaxDepth
       THEN Visited([cv EXCEPT !.unfinished = TRUE], GoToLabel(command))
       ELSE Visited(Visit(ConvGenerateAndPushArgumentMap(cv, module.params, command.args),
                          program, "module", module).cv,
                    GoToLabel(command))

\* visitTermination
VisitTermination(cv, command) == Visited(cv, command.state)

RECURSIVE VisitBlocksFrom(_, _, _, _)
\* the loops of visitModule and _visitIfOrElse: visit blocks[i], then
\* _incrementIndex, for i from the given index on
VisitBlocksFrom(cv, program, blocks, i) ==
    IF i > Len(blocks) THEN cv
    ELSE CHOOSE result \in
            {VisitBlocksFrom(next, program, blocks, i + 1) :
                next \in {ConvIncrementIndex(Visit(cv, program, "block", blocks[i]).cv)}} :
            TRUE

\* the converter after the first lines of visitModule, before its loop
ModuleEntered(cv, module) ==
    LET cv1 == GenerateNextLabel(cv, module.identifier, CurrentArgs(cv), 0).cv
        cv2 == ConvPushBlocks(cv1, module.blocks, module.identifier, TRUE)
    IN [cv2 EXCEPT
          !.constructedModules =
              FnSet(@, module.identifier,
                    Append(FnGet(@, module.identifier, <<>>), CurrentArgs(cv2))),
          !.visited = Append(@, <<module.identifier, CurrentArgs(cv2)>>),
          !.depth = @ + 1]

\* visitModule
VisitModule(cv, program, module) ==
    [ConvPopBlocks(VisitBlocksFrom(ModuleEntered(cv, module), program, module.blocks, 1))
       EXCEPT !.depth = @ - 1]

\* the next state of a block without a flow command
FallThrough(cv) ==
    LET next == IncrementIndexAndFindNextState(cv)
    IN IF next = Undefined THEN REJECT ELSE next

\* the change of a block, given the converter and the label its next state
\* was found with
ChangeOf(r, block) ==
    [cv |-> r.cv,
     change |-> TMChange(r.label,
                         IF block.changeTo = Undefined THEN Undefined
                         ELSE GetNextValue(block.changeTo, CurrentArgumentMap(r.cv)),
                         block.move)]

\* _getTMChangeForBasicBlock
GetTMChangeForBasicBlock(cv, program, block) ==
    ChangeOf(IF block.flow.type # "none"
             THEN Visit(cv, program, "flow", block.flow)
             ELSE Visited(cv, FallThrough(cv)),
             block)

\* _visitIfOrElse: the blocks after the first form a new sequence of blocks
VisitIfOrElse(cv, program, blocks, extraLabel) ==
    IF Len(blocks) > 1
    THEN LET newIdentifier == GetCurrentLabel(cv, FALSE) \o "-" \o extraLabel
             g == GenerateNextLabel(cv, newIdentifier, CurrentArgs(cv), 1)
             cv1 == ConvPushBlocks(g.cv, blocks, newIdentifier, FALSE)
         IN Visited(ConvPopBlocks(VisitBlocksFrom(cv1, program, blocks, 2)), g.label)
    ELSE Visited(cv, Undefined)

\* visitIf
VisitIf(cv, program, case) == VisitIfOrElse(cv, program, case.blocks, IfExtraLabel(case.values))

\* visitElse
VisitElse(cv, program, case) == VisitIfOrElse(cv, program, case.blocks, "else")

\* a variant of visitWhile that returns no label
VisitWhile_NoLabel(cv, case) == Visited(cv, Undefined)

\* visitWhile
VisitWhile(cv, case) == Visited(cv, GetCurrentLabel(cv, TRUE))

\* the next state of a case whose first block has no flow command: the
\* label the visit of the case returns, or else the fall through
CaseNextState(v) ==
    IF v.label # Undefined THEN v ELSE Visited(v.cv, FallThrough(v.cv))

\* _getTMChangeForSwitchCase
GetTMChangeForSwitchCase(cv, program, case) ==
    ChangeOf(IF FirstBlock(case).type # "core" /\ FirstBlock(case).flow.type # "none"
             THEN Visit(cv, program, "flow", FirstBlock(case).flow)
             ELSE CaseNextState(Visit(cv, program, "case", case)),
             FirstBlock(case))

\* the letter a trigger value stands for: argumentMap.get(value) || value
TriggerLetter(argumentMap, value) ==
    IF MapDefined(argumentMap, value) /\ MapGet(argumentMap, value) # ""
    THEN MapGet(argumentMap, value) ELSE value

RECURSIVE AddTransitions(_, _, _, _)
\* state.addTransition(letter, change) for the letters of a sequence, in order
AddTransitions(trans, letters, change, i) ==
    IF i > Len(letters) THEN trans
    ELSE AddTransitions(AddTransition(trans, letters[i], change), letters, change, i + 1)

\* the letters an if or while case takes from the remaining letters
CaseLetters(case, argumentMap) ==
    {TriggerLetter(argumentMap, case.values[i]) : i \in 1..Len(case.values)}

\* the transitions of a case, added to those of the earlier cases
CaseTransitions(trans, case, argumentMap, remainingLetters, change) ==
    IF case.type = "else"
    THEN [l \in (DOMAIN trans) \cup remainingLetters |->
            IF l \in remainingLetters THEN CompleteChange(change, l) ELSE trans[l]]
    ELSE AddTransitions(trans,
            [i \in 1..Len(case.values) |-> TriggerLetter(argumentMap, case.values[i])],
            change, 1)

\* one round of the loop of visitSwitchBlock: the converter, the remaining
\* letters and the transitions after the case
CaseVisited(r, case, remainingLetters, trans) ==
    [cv |-> r.cv,
     remainingLetters |-> IF case.type = "else" THEN remainingLetters
                          ELSE remainingLetters \ CaseLetters(case, CurrentArgumentMap(r.cv)),
     trans |-> CaseTransitions(trans, case, CurrentArgumentMap(r.cv), remainingLetters,
                               r.change)]

RECURSIVE VisitCasesFrom(_, _, _, _)
\* the loop of visitSwitchBlock over the cases
VisitCasesFrom(acc, program, cases, i) ==
    IF i > Len(cases) THEN acc
    ELSE CHOOSE result \in
            {VisitCasesFrom(next, program, cases, i + 1) :
                next \in {CaseVisited(GetTMChangeForSwitchCase(acc.cv, program, cases[i]),
                                      cases[i], acc.remainingLetters, acc.trans)}} :
            TRUE

\* visitBasicBlock
BasicBlockState(r, program) ==
    AddState(r.cv,
        ConstantTMState(r.cv.nextId, GetCurrentLabel(r.cv, TRUE),
                        Range(program.alphabet), r.change))

VisitBasicBlock(cv, program, block) ==
    BasicBlockState(GetTMChangeForBasicBlock(cv, program, block), program)

\* the state of a switch block takes the transitions of its cases
SwitchBlockState(acc, state) ==
    IF state.label \in DOMAIN acc.cv.states /\ acc.cv.states[state.label].id = state.id
    THEN [acc.cv EXCEPT !.states[state.label].trans = acc.trans]
    ELSE acc.cv

\* visitSwitchBlock: the state is added first and filled case by case
VisitSwitchBlock(cv, program, block) ==
    LET state == VariableTMState(cv.nextId, GetCurrentLabel(cv, TRUE))
    IN SwitchBlockState(
          VisitCasesFrom([cv |-> AddState(cv, state),
                          remainingLetters |-> Range(program.alphabet) \cup {Blank},
                          trans |-> EmptyFn],
                         program, block.cases, 1),
          state)

\* visitCoreBasicBlock: the converter is left as it is
VisitCoreBasicBlock(cv) == cv

Visit(cv, program, kind, node) ==
    CASE kind = "module" -> Visited(VisitModule(cv, program, node), Undefined)
      [] kind = "block" /\ node.type = "switch" ->
            Visited(VisitSwitchBlock(cv, program, node), Undefined)
      [] kind = "block" /\ node.type = "basic" ->
            Visited(VisitBasicBlock(cv, program, node), Undefined)
      [] kind = "block" /\ node.type \notin {"switch", "basic"} ->
            Visited(VisitCoreBasicBlock(cv), Undefined)
      [] kind = "flow" /\ node.type = "goto" -> VisitGoTo(cv, program, node)
      [] kind = "flow" /\ node.type # "goto" -> VisitTermination(cv, node)
      [] kind = "case" /\ node.type = "if" -> VisitIf(cv, program, node)
      [] kind = "case" /\ node.type = "else" -> VisitElse(cv, program, node)
      [] kind = "case" /\ node.type = "while" -> VisitWhile(cv, node)

\* visitProgram
VisitProgram(cv, program) ==
    Visit([cv EXCEPT !.initialState = program.modules[1].identifier \o "-0",
                     !.argumentMapStack = Append(@, EmptyMap)],
          program, "module", program.modules[1]).cv

\* convert(): the Turing machine of the program
Convert(program) ==
    LET cv == VisitProgram(NewConverter, program)
    IN [initialState |-> cv.initialState,
        states |-> cv.states,
        added |-> cv.added,
        visited |-> cv.visited,
        unfinished |-> cv.unfinished]

\* ------------------------------------------------------------------------
\* CodeValidator: the result of validate() is "ok" or the message of the
\* first error thrown
\* ------------------------------------------------------------------------

Ok == "ok"

Quoted(v) == "\"" \o v \o "\""

\* _addModuleNames: the first module whose identifier was seen before
DuplicateModules(program) ==
    {i \in 1..Len(program.modules) :
        \E j \in 1..(i - 1) : program.modules[j].identifier = program.modules[i].identifier}

\* _moduleNames.has(identifier)
ModuleDeclared(program, identifier) ==
    \E i \in 1..Len(program.modules) : program.modules[i].identifier = identifier

\* _moduleNames.get(identifier): the parameter count of the last module of
\* that name
ParamCount(program, identifier) ==
    LET ms == {i \in 1..Len(program.modules) : program.modules[i].identifier = identifier}
    IN Len(program.modules[MaxOf(ms)].params)

\* visitChangeTo
ValidateChangeTo(program, value) ==
    IF value # Blank /\ value \notin Range(program.alphabet)
    THEN "The letter " \o Quoted(value) \o " is not part of the alphabet."
    ELSE Ok

\* visitGoTo
ValidateGoTo(program, command) ==
    IF ~ModuleDeclared(program, command.identifier)
    THEN "Undefined module " \o Quoted(command.identifier) \o "."
    ELSE IF Len(command.args) # ParamCount(program, command.identifier)
    THEN "Expected " \o ToString(ParamCount(program, command.identifier))
         \o " number of arguments."
    ELSE Ok

\* visitBasicBlock: the changeto command, then the flow command
ValidateBasicBlock(program, block) ==
    LET c == IF block.changeTo # Undefined THEN ValidateChangeTo(program, block.changeTo) ELSE Ok
        f == IF block.flow.type = "goto" THEN ValidateGoTo(program, block.flow) ELSE Ok
    IN [err |-> IF c # Ok THEN c ELSE f, flow |-> block.flow.type # "none"]

RECURSIVE ValidateBlocksFrom(_, _, _, _, _, _, _)
RECURSIVE ValidateCasesFrom(_, _, _, _, _, _, _)
RECURSIVE ValidateValuesFrom(_, _, _, _)

\* the loop over the values of an if/while case in visitSwitchBlock: each
\* value must be blank or a letter of the alphabet and still be in the set
ValidateValuesFrom(program, values, i, alphabetSet) ==
    IF i > Len(values) THEN [err |-> Ok, alphabetSet |-> alphabetSet]
    ELSE LET letter == values[i]
             l == IF letter = Blank THEN "blank" ELSE letter
         IN IF letter # Blank /\ l \notin Range(program.alphabet)
            THEN [err |-> "The letter " \o Quoted(l) \o " is not part of the alphabet.",
                  alphabetSet |-> alphabetSet]
            ELSE IF letter \notin alphabetSet
            THEN [err |-> "Multiple cases present for letter " \o Quoted(l) \o ".",
                  alphabetSet |-> alphabetSet]
            ELSE ValidateValuesFrom(program, values, i + 1, alphabetSet \ {letter})

\* visitIf, visitElse (both _validateBlocks of the body) and visitWhile
ValidateCase(program, params, case) ==
    IF case.type = "while"
    THEN [err |-> Ok, flow |-> FALSE]
    ELSE ValidateBlocksFrom(program, params, case.blocks, TRUE, 1, FALSE, FALSE)

\* the missing letters in the order of the set, each listed once at the
\* place it was first added: the alphabet, blank, the parameters
MissingLetters(program, params, alphabetSet) ==
    LET order == program.alphabet \o <<Blank>> \o params
        first == {i \in 1..Len(order) :
                     order[i] \in alphabetSet /\ \A j \in 1..(i - 1) : order[j] # order[i]}
        missing == [k \in 1..Cardinality(first) |->
                       order[CHOOSE i \in first : Cardinality({j \in first : j <= i}) = k]]
    IN [i \in 1..Len(missing) |-> IF missing[i] = Blank THEN "blank" ELSE Quoted(missing[i])]

RECURSIVE JoinWith(_, _)
JoinWith(s, sep) ==
    IF Len(s) = 0 THEN ""
    ELSE IF Len(s) = 1 THEN s[1]
    ELSE s[1] \o sep \o JoinWith(Tail(s), sep)

\* the loop of visitSwitchBlock over the cases, and the check after it
ValidateCasesFrom(program, params, cases, i, alphabetSet, seenElse, hasFlow) ==
    IF i > Len(cases)
    THEN IF ~seenElse /\ alphabetSet # {}
         THEN LET missing == MissingLetters(program, params, alphabetSet)
              IN [err |-> "The switch block doesn't have a case for the "
                          \o (IF Len(missing) = 1 THEN "letter" ELSE "letters")
                          \o ": " \o JoinWith(missing, ", ") \o ".",
                  flow |-> hasFlow]
         ELSE [err |-> Ok, flow |-> hasFlow]
    ELSE LET case == cases[i]
             v == IF case.type = "else"
                  THEN [err |-> IF i # Len(cases)
                                THEN "A non-final case cannot be an else block" ELSE Ok,
                        alphabetSet |-> alphabetSet]
                  ELSE ValidateValuesFrom(program, case.values, 1, alphabetSet)
             c == ValidateCase(program, params, case)
         IN IF v.err # Ok THEN [err |-> v.err, flow |-> hasFlow]
            ELSE IF c.err # Ok THEN [err |-> c.err, flow |-> hasFlow]
            ELSE ValidateCasesFrom(program, params, cases, i + 1, v.alphabetSet,
                                   seenElse \/ case.type = "else", hasFlow \/ c.flow)

\* visitSwitchBlock
ValidateSwitchBlock(program, params, block) ==
    ValidateCasesFrom(program, params, block.cases, 1,
                      Range(program.alphabet) \cup {Blank} \cup Range(params), FALSE, FALSE)

\* visitCoreBasicBlock: nothing is checked and true is returned
ValidateCoreBasicBlock == [err |-> Ok, flow |-> TRUE]

\* _validateBlocks(blocks, isIfBlock), from block i on
ValidateBlocksFrom(program, params, blocks, isIfBlock, i, hasFlow, hasSwitch) ==
    IF i > Len(blocks) THEN [err |-> Ok, flow |-> hasFlow]
    ELSE IF hasSwitch
    THEN [err |-> "A non-final block in a sequence of blocks cannot be a switch block.",
          flow |-> hasFlow]
    ELSE IF hasFlow
    THEN [err |-> "A non-final block in a sequence of blocks cannot have a flow command.",
          flow |-> hasFlow]
    ELSE IF blocks[i].type = "switch" /\ isIfBlock /\ i = 1
    THEN [err |-> "The first block within an if case cannot be a switch block.",
          flow |-> hasFlow]
    ELSE LET r == IF blocks[i].type = "switch"
                  THEN ValidateSwitchBlock(program, params, blocks[i])
                  ELSE IF blocks[i].type = "basic"
                  THEN ValidateBasicBlock(program, blocks[i])
                  ELSE ValidateCoreBasicBlock
         IN IF r.err # Ok THEN r
            ELSE ValidateBlocksFrom(program, params, blocks, isIfBlock, i + 1,
                                    hasFlow \/ r.flow, blocks[i].type = "switch")

\* visitModule
ValidateModule(program, module) ==
    LET both == SelectSeq(module.params, LAMBDA l : l \in Range(program.alphabet))
    IN IF Len(both) > 0
       THEN "The letter " \o Quoted(both[1]) \o " is both in the alphabet and a module parameter."
       ELSE IF Len(module.blocks) = 0
       THEN "A program should have at least one module."
       ELSE ValidateBlocksFrom(program, module.params, module.blocks, FALSE, 1, FALSE, FALSE).err

RECURSIVE ValidateModulesFrom(_, _)
ValidateModulesFrom(program, i) ==
    IF i > Len(program.modules) THEN Ok
    ELSE LET r == ValidateModule(program, program.modules[i])
         IN IF r # Ok THEN r ELSE ValidateModulesFrom(program, i + 1)

\* visitProgram, reached from validate()
Validate(program) ==
    IF Len(program.alphabet) = 0
    THEN "The alphabet must have at least one letter."
    ELSE IF DuplicateModules(program) # {}
    THEN "Duplicate module with name "
         \o Quoted(program.modules[MinOf(DuplicateModules(program))].identifier) \o "."
    ELSE IF Len(program.modules) = 0
    THEN "A program should have at least one module."
    ELSE ValidateModulesFrom(program, 1)

\* ------------------------------------------------------------------------
\* CodeValidator, the variant that asks for an else case where a parameter
\* is a trigger value (names ending in 2): "ok" or the first error message
\* ------------------------------------------------------------------------

\* a variant of visitGoTo that does not count the arguments
ValidateGoTo2_Declared(program, command) ==
    IF ~ModuleDeclared(program, command.identifier)
    THEN "Undefined module " \o Quoted(command.identifier) \o "."
    ELSE Ok

\* visitGoTo
ValidateGoTo2(program, command) ==
    IF ~ModuleDeclared(program, command.identifier)
    THEN "Undefined module " \o Quoted(command.identifier) \o "."
    ELSE IF Len(command.args) # ParamCount(program, command.identifier)
    THEN "Expected " \o ToString(ParamCount(program, command.identifier)) \o " "
         \o (IF ParamCount(program, command.identifier) = 1 THEN "argument" ELSE "arguments")
         \o "."
    ELSE Ok

\* visitBasicBlock: the changeto command, then the flow command
ValidateBasicBlock2(program, block) ==
    LET c == IF block.changeTo # Undefined THEN ValidateChangeTo(program, block.changeTo) ELSE Ok
    IN IF c # Ok THEN c
       ELSE IF block.flow.type = "goto" THEN ValidateGoTo2(program, block.flow) ELSE Ok

\* the first value of the cases, in order, that is neither blank, nor a
\* parameter, nor a letter of the alphabet
UnknownValues(program, params, case) ==
    IF case.type = "else" THEN <<>>
    ELSE SelectSeq(case.values,
                   LAMBDA v : v # Blank /\ v \notin Range(params) /\ v \notin Range(program.alphabet))

\* the first loop of visitSwitchBlock: the error of the first case in order
\* that is a non-final else or has an unknown value
RECURSIVE ValidateCaseValuesFrom2(_, _, _, _)
ValidateCaseValuesFrom2(program, params, cases, i) ==
    IF i > Len(cases) THEN Ok
    ELSE IF cases[i].type = "else" /\ i # Len(cases)
    THEN "A non-final case cannot be an else block"
    ELSE IF Len(UnknownValues(program, params, cases[i])) > 0
    THEN "The letter " \o Quoted(UnknownValues(program, params, cases[i])[1])
         \o " is not part of the alphabet."
    ELSE ValidateCaseValuesFrom2(program, params, cases, i + 1)

\* the trigger values of the if and while cases of a switch block
TriggerValues(block) ==
    UNION {Range(block.cases[k].values) :
              k \in {j \in 1..Len(block.cases) : block.cases[j].type # "else"}}

RECURSIVE ValidateBlocksFrom2(_, _, _, _)

\* visitIf, visitElse and visitWhile
ValidateCase2(program, params, case) ==
    IF case.type = "while"
    THEN IF Len(case.values) = 0
         THEN "A while case must apply to at least one letter." ELSE Ok
    ELSE IF case.type = "if" /\ Len(case.values) = 0
    THEN "An if case must apply to at least one letter."
    ELSE IF case.blocks[1].type # "basic"
    THEN "The first block within an " \o case.type \o " case must be a basic block."
    ELSE ValidateBlocksFrom2(program, params, case.blocks, 1)

RECURSIVE ValidateCasesFrom2(_, _, _, _)
\* visitAll(block.cases)
ValidateCasesFrom2(program, params, cases, i) ==
    IF i > Len(cases) THEN Ok
    ELSE LET r == ValidateCase2(program, params, cases[i])
         IN IF r # Ok THEN r ELSE ValidateCasesFrom2(program, params, cases, i + 1)

\* a variant of the check at the end of visitSwitchBlock that asks for an
\* else case only
ValidateCoverage2_ElseOnly(program, params, block) ==
    IF TriggerValues(block) \cap Range(params) # {}
          /\ \A k \in 1..Len(block.cases) : block.cases[k].type # "else"
    THEN "If parametrised letters are used then the switch block must have an else case."
    ELSE Ok

\* a variant of the check at the end of visitSwitchBlock that does not look
\* for parameters among the trigger values
ValidateCoverage2_NoParamCheck(program, params, block) ==
    LET missing == MissingLetters(program, <<>>,
                      (Range(program.alphabet) \cup {Blank}) \ TriggerValues(block))
    IN IF (\A k \in 1..Len(block.cases) : block.cases[k].type # "else") /\ Len(missing) > 0
       THEN "The switch block doesn't have a case for the "
            \o (IF Len(missing) = 1 THEN "letter" ELSE "letters")
            \o ": " \o JoinWith(missing, ", ") \o "."
       ELSE Ok

\* the check at the end of visitSwitchBlock
ValidateCoverage2(program, params, block) ==
    LET seenElse == \E k \in 1..Len(block.cases) : block.cases[k].type = "else"
        seenParamValue == TriggerValues(block) \cap Range(params) # {}
        alphabetSet == (Range(program.alphabet) \cup {Blank} \cup Range(params))
                          \ TriggerValues(block)
        missing == MissingLetters(program, <<>>, alphabetSet \ Range(params))
    IN IF seenParamValue /\ ~seenElse
       THEN "If parametrised letters are used then the switch block must have an else case."
       ELSE IF ~seenElse /\ Cardinality(alphabetSet) # Cardinality(Range(params))
       THEN "The switch block doesn't have a case for the "
            \o (IF Len(missing) = 1 THEN "letter" ELSE "letters")
            \o ": " \o JoinWith(missing, ", ") \o "."
       ELSE Ok

\* a variant of visitSwitchBlock that visits the cases before it looks at
\* their trigger values
ValidateSwitchBlock2_CasesFirst(program, params, block) ==
    LET v == ValidateCaseValuesFrom2(program, params, block.cases, 1)
        c == ValidateCasesFrom2(program, params, block.cases, 1)
    IN IF c # Ok THEN c
       ELSE IF v # Ok THEN v
       ELSE ValidateCoverage2(program, params, block)

\* visitSwitchBlock
ValidateSwitchBlock2(program, params, block) ==
    LET v == ValidateCaseValuesFrom2(program, params, block.cases, 1)
        c == ValidateCasesFrom2(program, params, block.cases, 1)
    IN IF v # Ok THEN v
       ELSE IF c # Ok THEN c
       ELSE ValidateCoverage2(program, params, block)

\* visitCoreBasicBlock: nothing is checked
ValidateCoreBasicBlock2 == Ok

\* visitAll(blocks)
ValidateBlocksFrom2(program, params, blocks, i) ==
    IF i > Len(blocks) THEN Ok
    ELSE LET r == IF blocks[i].type = "switch"
                  THEN ValidateSwitchBlock2(program, params, blocks[i])
                  ELSE IF blocks[i].type = "basic"
                  THEN ValidateBasicBlock2(program, blocks[i])
                  ELSE ValidateCoreBasicBlock2
         IN IF r # Ok THEN r ELSE ValidateBlocksFrom2(program, params, blocks, i + 1)

\* visitModule
ValidateModule2(program, module) ==
    LET both == SelectSeq(module.params, LAMBDA l : l \in Range(program.alphabet))
    IN IF Len(both) > 0
       THEN "The letter " \o Quoted(both[1]) \o " is both in the alphabet and a module parameter."
       ELSE ValidateBlocksFrom2(program, module.params, module.blocks, 1)

RECURSIVE ValidateModulesFrom2(_, _)
ValidateModulesFrom2(program, i) ==
    IF i > Len(program.modules) THEN Ok
    ELSE LET r == ValidateModule2(program, program.modules[i])
         IN IF r # Ok THEN r ELSE ValidateModulesFrom2(program, i + 1)

\* visitProgram, reached from validate()
Validate2(program) ==
    IF Len(program.alphabet) = 0
    THEN "The alphabet must have at least one letter."
    ELSE IF DuplicateModules(program) # {}
    THEN "Duplicate module with name "
         \o Quoted(program.modules[MinOf(DuplicateModules(program))].identifier) \o "."
    ELSE IF Len(program.modules) = 0
    THEN "A program should have at least one module."
    ELSE IF Len(program.modules[1].params) # 0
    THEN "The first module cannot have parameters."
    ELSE ValidateModulesFrom2(program, 1)

\* a validated program: validate() of either validator comes back
Validated(program) == Validate(program) = Ok \/ Validate2(program) = Ok

\* ------------------------------------------------------------------------
\* The programs and the tape strings the runs are started from
\* ------------------------------------------------------------------------

AB == <<"a", "b">>

Terminations == {Termination(ACCEPT), Termination(REJECT), Termination(HALT)}

BB(c, d, f) == BasicBlock(c, d, f)

\* a module of one basic block (the parser never yields a block without a
\* command)
SingleBlocks ==
    {BB(c, d, f) : c \in {Undefined, Blank, "b"}, d \in {Undefined, RIGHT, START, END},
                   f \in {NoFlow, GoTo("main", <<>>)} \cup Terminations}
    \ {BB(Undefined, Undefined, NoFlow)}

StraightPrograms ==
    {Program(AB, <<Module("main", <<>>, <<b>>)>>) : b \in SingleBlocks}
    \cup
    {Program(AB, <<Module("main", <<>>, <<BB(c, RIGHT, NoFlow), BB("b", d, f)>>)>>) :
        c \in {Undefined, "a"}, d \in {Undefined, END},
        f \in {NoFlow, Termination(ACCEPT), GoTo("main", <<>>)}}

\* bodies of if and else cases
Bodies ==
    {<<BB(Undefined, RIGHT, NoFlow)>>,
     <<BB("b", Undefined, Termination(ACCEPT))>>,
     <<BB(Blank, RIGHT, NoFlow), BB(Undefined, LEFT, NoFlow)>>,
     <<BB(Undefined, RIGHT, NoFlow), BB("a", Undefined, GoTo("main", <<>>))>>,
     <<BB(Undefined, RIGHT, NoFlow),
       SwitchBlock(<<IfCase(<<"b">>, <<BB(Blank, Undefined, NoFlow), BB(Undefined, RIGHT, Termination(HALT))>>),
                     ElseCase(<<BB(Undefined, END, NoFlow)>>)>>)>>}

ElseBodies ==
    {<<BB(Undefined, Undefined, Termination(REJECT))>>,
     <<BB("a", LEFT, NoFlow)>>,
     <<BB(Undefined, RIGHT, NoFlow), BB("b", START, NoFlow)>>}

CoreBlocks == {CoreBasicBlock(Undefined, RIGHT), CoreBasicBlock(Blank, Undefined),
               CoreBasicBlock("b", RIGHT)}

FirstCases ==
    {IfCase(vs, bs) : vs \in {<<"a">>, <<"a", Blank>>}, bs \in Bodies}
    \cup {WhileCase(<<"a">>, cb) : cb \in CoreBlocks}

RestCases ==
    {<<ElseCase(bs)>> : bs \in ElseBodies}
    \cup {<<IfCase(<<"b", Blank>>, bs)>> : bs \in ElseBodies}
    \cup {<<WhileCase(<<"b">>, CoreBasicBlock("a", LEFT)), ElseCase(bs)>> : bs \in ElseBodies}
    \cup {<<>>, <<IfCase(<<"a", "b">>, <<BB(Undefined, RIGHT, NoFlow)>>)>>}

SwitchPrograms ==
    {Program(AB, <<Module("main", <<>>, <<SwitchBlock(<<c>> \o r)>>)>>) :
        c \in FirstCases, r \in RestCases}
    \cup
    {Program(AB, <<Module("main", <<>>,
                     <<BB(Undefined, RIGHT, NoFlow),
                       SwitchBlock(<<IfCase(<<"a">>, bs), ElseCase(es)>>)>>)>>) :
        bs \in Bodies, es \in ElseBodies}

\* bodies of a module m(x)
ParamBodies ==
    {<<SwitchBlock(<<IfCase(<<"x">>, <<BB(Blank, RIGHT, Termination(ACCEPT))>>),
                     ElseCase(<<BB(Undefined, Undefined, Termination(REJECT))>>)>>)>>,
     <<SwitchBlock(<<IfCase(<<"a">>, <<BB(Undefined, RIGHT, GoTo("m", <<"b">>))>>),
                     ElseCase(<<BB("a", LEFT, NoFlow), BB(Undefined, RIGHT, Termination(HALT))>>)>>)>>,
     <<SwitchBlock(<<WhileCase(<<"b">>, CoreBasicBlock(Blank, RIGHT)),
                     IfCase(<<"a", Blank>>, <<BB(Undefined, Undefined, Termination(ACCEPT))>>)>>)>>,
     <<BB(Undefined, RIGHT, NoFlow), BB("b", Undefined, Termination(ACCEPT))>>,
     <<BB(Undefined, RIGHT, GoTo("main", <<>>))>>,
     <<BB("a", LEFT, GoTo("m", <<"b">>))>>,
     <<BB("x", RIGHT, Termination(ACCEPT))>>,
     <<SwitchBlock(<<IfCase(<<"x">>, <<BB(Blank, RIGHT, Termination(ACCEPT))>>),
                     IfCase(<<"a">>, <<BB(Undefined, Undefined, Termination(HALT))>>),
                     ElseCase(<<BB("b", RIGHT, NoFlow)>>)>>)>>}

ParamPrograms ==
    {Program(AB,
        <<Module("main", <<>>,
            <<SwitchBlock(<<IfCase(<<"a">>, <<BB(c, RIGHT, GoTo("m", <<"a">>))>>),
                            ElseCase(<<BB(Undefined, d, GoTo("m", <<t>>))>>)>>)>>),
          Module("m", <<"x">>, body)>>) :
        c \in {Undefined, Blank}, d \in {Undefined, RIGHT}, t \in {"a", "b"},
        body \in ParamBodies}
    \cup
    {Program(AB,
        <<Module("main", <<>>, <<BB(Undefined, d, GoTo("p", <<s, t>>))>>),
          Module("p", <<"x", "y">>,
            <<SwitchBlock(<<IfCase(<<"x">>, <<BB(Undefined, RIGHT, Termination(ACCEPT))>>),
                            IfCase(<<"y">>, <<BB(Blank, Undefined, Termination(HALT))>>),
                            ElseCase(<<BB(Undefined, Undefined, f)>>)>>)>>)>>) :
        d \in {Undefined, RIGHT}, s \in {"a", "b"}, t \in {"a", "b"},
        f \in {Termination(REJECT), GoTo("p", <<"b", "a">>)}}

\* a module entered by goto from a block that is not the last of its sequence
CallPrograms ==
    {Program(AB,
        <<Module("main", <<>>, <<BB(c, RIGHT, GoTo("s", <<>>))>> \o rest),
          Module("s", <<>>, body)>>) :
        c \in {Undefined, "b"},
        rest \in {<<>>, <<BB("a", Undefined, Termination(ACCEPT))>>,
                  <<BB(Undefined, LEFT, GoTo("s", <<>>)), BB(Undefined, Undefined, Termination(HALT))>>},
        body \in {<<BB("a", RIGHT, NoFlow)>>,
                  <<BB(Undefined, END, Termination(REJECT))>>,
                  <<BB(Blank, Undefined, NoFlow), BB(Undefined, RIGHT, GoTo("main", <<>>))>>}}

\* programs in which the identifier of a module has the form of a label:
\* identifiers are tokens, runs of characters other than spaces and
\* punctuation, so "m-0-a" and "m-a" are identifiers
LabelPrograms ==
    {Program(AB,
        <<Module("m-0-a", <<>>,
            <<SwitchBlock(<<IfCase(<<"a">>, <<BB(Undefined, RIGHT, GoTo("m", <<>>))>>),
                            WhileCase(<<"b">>, CoreBasicBlock("a", RIGHT)),
                            ElseCase(<<BB(Undefined, Undefined, Termination(REJECT))>>)>>)>>),
          Module("m", <<>>,
            <<SwitchBlock(<<IfCase(<<"a">>, <<BB(Undefined, RIGHT, NoFlow),
                                               BB("b", Undefined, f)>>),
                            ElseCase(<<BB(Undefined, Undefined, Termination(REJECT))>>)>>)>>)>>) :
        f \in {Termination(ACCEPT), NoFlow}}
    \cup
    {Program(AB,
        <<Module("main", <<>>,
            <<SwitchBlock(<<IfCase(<<"a">>, <<BB(Undefined, RIGHT, GoTo("m", <<"a">>))>>),
                            ElseCase(<<BB(Undefined, RIGHT, GoTo("m-a", <<>>))>>)>>)>>),
          Module("m", <<"x">>, <<BB("b", RIGHT, NoFlow), BB(Undefined, Undefined, Termination(ACCEPT))>>),
          Module("m-a", <<>>, <<BB("b", RIGHT, f)>>)>>) :
        f \in {Termination(HALT), GoTo("m", <<"a">>)}}

\* switch blocks of two or three if and while cases and no else case
CoverageBlocks ==
    {SwitchBlock(<<IfCase(v, <<BB(Undefined, RIGHT, Termination(ACCEPT))>>), c>> \o r) :
        v \in {<<"a">>, <<"b">>, <<"a", "b">>, <<"a", Blank>>, <<"a", "a">>},
        c \in {IfCase(<<"b">>, <<BB("a", Undefined, Termination(REJECT))>>),
               IfCase(<<"b", Blank>>, <<BB(Undefined, LEFT, NoFlow)>>),
               WhileCase(<<Blank>>, CoreBasicBlock("b", RIGHT)),
               WhileCase(<<"a">>, CoreBasicBlock(Undefined, RIGHT))},
        r \in {<<>>, <<IfCase(<<Blank>>, <<BB(Undefined, Undefined, Termination(HALT))>>)>>}}

\* the switch block is the body of main, the last block of the body of an
\* if case, or the body of a module m(x)
CoveragePrograms ==
    {Program(AB, <<Module("main", <<>>, <<sb>>)>>) : sb \in CoverageBlocks}
    \cup
    {Program(AB, <<Module("main", <<>>,
                     <<SwitchBlock(<<IfCase(<<"a">>, <<BB(Undefined, RIGHT, NoFlow), sb>>),
                                     ElseCase(<<BB(Undefined, Undefined, Termination(REJECT))>>)>>)>>)>>) :
        sb \in {b \in CoverageBlocks : Len(b.cases) = 2 /\ b.cases[2].type = "if"}}
    \cup
    {Program(AB, <<Module("main", <<>>, <<BB(Undefined, Undefined, GoTo("m", <<"a">>))>>),
                   Module("m", <<"x">>, <<sb>>)>>) :
        sb \in {b \in CoverageBlocks : Len(b.cases) = 3}}

\* a module m(x) whose switch block may name x, with and without an else case
ParamCoveragePrograms ==
    {Program(AB, <<Module("main", <<>>, <<BB(Undefined, RIGHT, GoTo("m", <<t>>))>>),
                   Module("m", <<"x">>,
                      <<SwitchBlock(<<IfCase(v, <<BB(Undefined, RIGHT, Termination(ACCEPT))>>), c>>
                                    \o r)>>)>>) :
        t \in {"b"},
        v \in {<<"x">>, <<"x", "a">>, <<"a">>},
        c \in {IfCase(<<"b", Blank>>, <<BB(Undefined, LEFT, NoFlow)>>),
               IfCase(<<"a", "b", Blank>>, <<BB(Undefined, LEFT, NoFlow)>>),
               WhileCase(<<"x">>, CoreBasicBlock(Blank, RIGHT)),
               WhileCase(<<"b">>, CoreBasicBlock(Undefined, RIGHT))},
        r \in {<<>>, <<ElseCase(<<BB(Undefined, Undefined, Termination(REJECT))>>)>>}}

\* changeto commands with a letter outside the alphabet, in a basic block
\* and in the body of a while case
ChangeToPrograms ==
    {Program(AB, <<Module("main", <<>>, <<BB(c, RIGHT, Termination(ACCEPT))>>)>>) :
        c \in {"c", "a"}}
    \cup
    {Program(AB, <<Module("main", <<>>,
                     <<SwitchBlock(<<WhileCase(<<"a">>, CoreBasicBlock(c, RIGHT)),
                                     ElseCase(<<BB(Undefined, Undefined, Termination(ACCEPT))>>)>>)>>)>>) :
        c \in {"c", "b"}}

\* goto commands to a module declared earlier, later or not at all, with
\* the number of arguments the module asks for or another number
GoToPrograms ==
    {Program(AB, <<Module("main", <<>>, <<BB(Undefined, RIGHT, g)>>),
                   Module("m", <<"x">>, <<BB("b", Undefined, f)>>)>>) :
        g \in {GoTo("m", <<"a">>), GoTo("m", <<>>), GoTo("m", <<"a", "b">>),
               GoTo("q", <<>>), GoTo("main", <<>>)},
        f \in {Termination(ACCEPT), GoTo("m", <<"b">>), GoTo("m", <<>>),
               GoTo("main", <<>>), GoTo("main", <<"a">>)}}

\* programs with violations of several rules: a changeto to a letter not in
\* the alphabet in the body of the first case, a trigger value not in the
\* alphabet in the second case, and a module declared twice
SeveralErrorsPrograms ==
    {Program(AB, <<Module("main", <<>>,
                          <<SwitchBlock(<<IfCase(<<"a">>, <<BB(c, RIGHT, Termination(ACCEPT))>>),
                                          IfCase(<<y>>, <<BB(Undefined, RIGHT, Termination(REJECT))>>),
                                          ElseCase(<<BB(Undefined, Undefined, Termination(HALT))>>)>>)>>),
                   Module("m", <<>>, <<BB("b", Undefined, Termination(ACCEPT))>>),
                   Module(n, <<>>, <<BB(Undefined, RIGHT, Termination(ACCEPT))>>)>>) :
        c \in {"b", "c"}, y \in {"b", "d"}, n \in {"m", "q"}}

\* a while case that writes a letter and steps to the left, and an if case
\* that steps back and starts the module again: the letter written is read
\* by the switch block
WriteBackPrograms ==
    {Program(AB, <<Module("main", <<>>,
                          <<SwitchBlock(<<WhileCase(<<"a">>, CoreBasicBlock(c, LEFT)),
                                          IfCase(<<"b", Blank>>,
                                                 <<BB(Undefined, RIGHT, GoTo("main", <<>>))>>)>>)>>)>>) :
        c \in {"c", "b"}}

\* the alphabet names a letter twice, or a module names a parameter twice
\* (the parser accepts both): a switch block that leaves the repeated value
\* without a case, one that covers every letter, and a module n(x, x) that
\* goes to itself with two different arguments
RepeatedLetterPrograms ==
    {Program(<<"a", "a">>,
             <<Module("main", <<>>,
                  <<SwitchBlock(<<IfCase(v, <<BB(Undefined, RIGHT, Termination(ACCEPT))>>)>>)>>)>>) :
        v \in {<<Blank>>, <<"a", Blank>>}}
    \cup
    {Program(<<"a", "a">>,
             <<Module("main", <<>>, <<BB(Undefined, Undefined, GoTo("n", <<"a", "a">>))>>),
               Module("n", <<"x", "x">>,
                  <<SwitchBlock(<<IfCase(<<"a", Blank>>,
                                     <<BB(Undefined, RIGHT, Termination(ACCEPT))>>)>>)>>)>>)}
    \cup
    {Program(AB,
             <<Module("main", <<>>, <<BB(Undefined, Undefined, GoTo("n", <<"a", "b">>))>>),
               Module("n", <<"x", "x">>,
                  <<BB(Undefined, RIGHT, GoTo("n", <<"a", "b">>))>>)>>)}

Programs ==
    StraightPrograms \cup SwitchPrograms \cup ParamPrograms \cup CallPrograms
    \cup LabelPrograms \cup CoveragePrograms \cup ParamCoveragePrograms
    \cup ChangeToPrograms \cup GoToPrograms \cup SeveralErrorsPrograms
    \cup WriteBackPrograms \cup RepeatedLetterPrograms

\* the characters of a tape string: letters of the alphabet, a space, and a
\* character outside the alphabet
TapeChars == {"a", "b", " ", "c"}

\* tape strings with white space other than the space
BlankTapes == {<<"\t">>, <<"a", "\n">>, <<"\r", "c">>, <<"\\u2003", "a">>}

TapeStrings == UNION {[1..n -> TapeChars] : n \in 0..MaxTapeLen} \cup BlankTapes

\* ------------------------------------------------------------------------
\* CodeWrapper: the code as lines of tokens, the current token and the
\* indentation stack
\* ------------------------------------------------------------------------

\* one line of the code: the width of its leading whitespace and its tokens
\* (a line has at least one token; empty lines give none)
Line(w, ts) == [indent |-> w, tokens |-> ts]

\* the token that starts a comment
CommentMarker == "##"

\* the sentinel pushed for a de-indentation to no open level
InvalidIndent == 0 - 1

\* the stack without the levels deeper than w
PoppedTo(stack, w) ==
    SubSeq(stack, 1, CHOOSE k \in 1..Len(stack) :
                         /\ stack[k] <= w
                         /\ \A j \in (k + 1)..Len(stack) : stack[j] > w)

\* the indentation stack after the first token of a line of width w
IndentationAfter(stack, w) ==
    IF w = Last(stack) THEN stack
    ELSE IF w > Last(stack) THEN Append(stack, w)
    ELSE IF Last(PoppedTo(stack, w)) = w THEN PoppedTo(stack, w)
    ELSE Append(PoppedTo(stack, w), InvalidIndent)

\* new CodeParser(code): nothing read, reachedEnd false; error is the
\* message of the CodeError thrown, result the value last returned
NewParser ==
    [line |-> 0, tok |-> 0, stack |-> <<0>>, moved |-> FALSE, reachedEnd |-> FALSE,
     error |-> Ok, result |-> <<>>]

HasNextToken(src, p) ==
    IF p.line = 0 THEN Len(src) > 0
    ELSE p.tok < Len(src[p.line].tokens) \/ p.line < Len(src)

\* CodeWrapper.moveNext: moved is what it returns; after the last token the
\* current token stays; a comment line leaves the indentation stack alone
WrapperMoveNext(src, p) ==
    IF ~HasNextToken(src, p) THEN [p EXCEPT !.moved = FALSE]
    ELSE IF p.line > 0 /\ p.tok < Len(src[p.line].tokens)
    THEN [p EXCEPT !.tok = @ + 1, !.moved = TRUE]
    ELSE [p EXCEPT !.line = @ + 1, !.tok = 1, !.moved = TRUE,
                   !.stack = IF src[p.line + 1].tokens[1] = CommentMarker THEN @
                             ELSE IndentationAfter(@, src[p.line + 1].indent)]

\* CodeWrapper.currentValue
CurrentValue(src, p) == src[p.line].tokens[p.tok]

\* ------------------------------------------------------------------------
\* CodeParser
\* ------------------------------------------------------------------------

\* const v = x, then F(v): x is evaluated once
Bind(x, F(_)) == CHOOSE r \in {F(v) : v \in {x}} : TRUE

\* the outcome of a call that never returns
Diverges == "does not return"

Failed(p) == p.error # Ok

\* throw new CodeError(position, message): the first error ends the parse
Throw(p, message) == IF Failed(p) THEN p ELSE [p EXCEPT !.error = message]

RECURSIVE IgnoreCommentsFrom(_, _, _)
\* _ignoreComments: the do-while loop
IgnoreCommentsFrom(src, p, startLine) ==
    Bind(WrapperMoveNext(src, p), LAMBDA m :
        IF m.moved /\ m.line = startLine THEN IgnoreCommentsFrom(src, m, startLine)
        ELSE IF ~m.moved THEN [m EXCEPT !.reachedEnd = TRUE]
        ELSE m)

\* _ignoreComments
IgnoreComments(src, p) == IgnoreCommentsFrom(src, p, p.line)

RECURSIVE MatchComments(_, _)
\* _matchComments: an iteration that leaves the parser as it was is followed
\* by the same iteration for ever
MatchComments(src, p) ==
    IF CurrentValue(src, p) # CommentMarker THEN p
    ELSE Bind(IgnoreComments(src, p), LAMBDA q :
             IF q = p THEN Throw(p, Diverges) ELSE MatchComments(src, q))

\* _moveNext(deIndentAllowed, indentAllowed, shouldThrow)
MoveNext(src, p0, deIndentAllowed, indentAllowed, shouldThrow) ==
    Bind(p0, LAMBDA p :
        IF Failed(p) THEN p
        ELSE Bind(WrapperMoveNext(src, p), LAMBDA m :
             Bind(IF ~m.moved THEN [m EXCEPT !.reachedEnd = TRUE]
                  ELSE MatchComments(src, m), LAMBDA q :
                 IF Last(q.stack) = InvalidIndent THEN Throw(q, "Invalid indentation.")
                 ELSE IF ~deIndentAllowed /\ Len(q.stack) < Len(p.stack)
                 THEN Throw(q, "Unexpected de-indentation.")
                 ELSE IF ~indentAllowed /\ Len(q.stack) > Len(p.stack)
                 THEN Throw(q, "Unexpected indentation.")
                 ELSE IF q.reachedEnd /\ shouldThrow
                 THEN Throw(q, "Unexpected end of file.")
                 ELSE q)))

\* _moveNext()
MoveOn(src, p0) == MoveNext(src, p0, FALSE, FALSE, TRUE)

\* _matchValue
MatchValue(src, p0, expected) ==
    Bind(p0, LAMBDA p :
        IF Failed(p) \/ CurrentValue(src, p) = expected THEN p
        ELSE Throw(p, "Expected value \"" \o CurrentValue(src, p) \o "\" to be \""
                      \o expected \o "\"."))

\* a variant of _matchIndent that takes any token that is not shallower
MatchIndent_Any(src, p0) == MoveNext(src, p0, FALSE, TRUE, TRUE)

\* _matchIndent
MatchIndent(src, p0) ==
    Bind(p0, LAMBDA p :
    Bind(MoveNext(src, p, FALSE, TRUE, TRUE), LAMBDA q :
        IF Len(p.stack) # Len(q.stack) - 1 \/ Last(q.stack) = InvalidIndent
        THEN Throw(q, "Expected indentation.")
        ELSE q))

\* _checkDeIndent: the parser after the move
CheckDeIndent(src, p0) == MoveNext(src, p0, TRUE, FALSE, FALSE)

\* a variant of _checkDeIndent that returns true whatever follows
DeIndented_Always(p, q) == TRUE

\* _checkDeIndent: what it returns, from the parser before and after
DeIndented(p, q) == q.reachedEnd \/ Len(p.stack) > Len(q.stack)

\* the characters /[a-z|0-9]/ matches
ValueCharacters ==
    {"a", "b", "c", "d", "e", "f", "g", "h", "i", "j", "k", "l", "m", "n", "o", "p",
     "q", "r", "s", "t", "u", "v", "w", "x", "y", "z", "|",
     "0", "1", "2", "3", "4", "5", "6", "7", "8", "9"}

RECURSIVE ParseValuesFrom(_, _, _, _, _, _)
\* _parseValues: the while loop
ParseValuesFrom(src, p0, finishedValue, includesBlank, values, noComma) ==
    Bind(p0, LAMBDA p :
        IF Failed(p) THEN p
        ELSE IF CurrentValue(src, p) = finishedValue THEN [p EXCEPT !.result = values]
        ELSE IF noComma
        THEN Throw(p, "Expected value \"" \o CurrentValue(src, p) \o "\" to be \""
                      \o finishedValue \o "\".")
        ELSE IF ~(includesBlank /\ CurrentValue(src, p) = "blank")
                /\ Len(CurrentValue(src, p)) # 1
        THEN Throw(p, "The value \"" \o CurrentValue(src, p) \o "\" must have length 1.")
        ELSE IF ~(includesBlank /\ CurrentValue(src, p) = "blank")
                /\ CurrentValue(src, p) \notin ValueCharacters
        THEN Throw(p, "The value \"" \o CurrentValue(src, p)
                      \o "\" must be a lowercase character or a number.")
        ELSE Bind(MoveOn(src, p), LAMBDA q :
             Bind(Append(values, IF CurrentValue(src, p) = "blank" THEN Blank
                                 ELSE CurrentValue(src, p)), LAMBDA pushed :
                 IF Failed(q) THEN q
                 ELSE IF CurrentValue(src, q) = ","
                 THEN ParseValuesFrom(src, MoveOn(src, q), finishedValue, includesBlank,
                                      pushed, FALSE)
                 ELSE ParseValuesFrom(src, q, finishedValue, includesBlank,
                                      pushed, TRUE))))

\* _parseValues
ParseValues(src, p0, finishedValue, includesBlank) ==
    ParseValuesFrom(src, p0, finishedValue, includesBlank, <<>>, FALSE)

\* _parseAlphabet
ParseAlphabet(src, p0) ==
    LET p1 == MoveOn(src, MatchValue(src, p0, "alphabet"))
        p2 == MoveOn(src, MatchValue(src, p1, "="))
        p3 == MoveOn(src, MatchValue(src, p2, "["))
    IN  ParseValues(src, p3, "]", FALSE)

\* _parseChangeTo: the result is the value of the ChangeToContext
ParseChangeTo(src, p0) ==
    Bind(MoveOn(src, p0), LAMBDA q :
        IF Failed(q) THEN q
        ELSE [q EXCEPT !.result = IF CurrentValue(src, q) = "blank" THEN Blank
                                  ELSE CurrentValue(src, q)])

\* _parseMove: the result is the direction of the MoveContext
ParseMove(src, p0) ==
    Bind(MoveOn(src, p0), LAMBDA q :
        IF Failed(q) THEN q
        ELSE IF CurrentValue(src, q) \in {"left", "right", "start", "end"}
        THEN [q EXCEPT !.result = CurrentValue(src, q)]
        ELSE Throw(q, "Invalid direction \"" \o CurrentValue(src, q) \o "\"."))

\* _parseGoTo
ParseGoTo(src, p0) ==
    Bind(MoveOn(src, p0), LAMBDA p1 :
    Bind(ParseValues(src, MoveOn(src, MatchValue(src, MoveOn(src, p1), "(")), ")", FALSE),
         LAMBDA p4 :
        IF Failed(p4) THEN p4
        ELSE [p4 EXCEPT !.result = GoTo(CurrentValue(src, p1), p4.result)]))

\* _parseTermination
ParseTermination(src, p) ==
    IF Failed(p) THEN p ELSE [p EXCEPT !.result = Termination(CurrentValue(src, p))]

\* _parseBasicBlock, from the flow command on: c is the parser after the
\* changeto command, m after the move command, m1 the parser now
ParseBasicBlockFlow(src, hasChangeTo, c, hasMove, m, finished, m1) ==
    LET hasTermination == /\ ~Failed(m1) /\ ~finished
                          /\ CurrentValue(src, m1) \in {"accept", "reject", "halt"}
        hasGoTo == /\ ~Failed(m1) /\ ~finished /\ ~hasTermination
                   /\ CurrentValue(src, m1) = "goto"
        \* startPosition === endPosition: every read of currentPosition
        \* gives a new object, so they are the same object when no command
        \* assigned endPosition again
        samePosition == ~hasChangeTo /\ ~hasMove /\ ~hasTermination /\ ~hasGoTo
    IN  Bind(IF hasTermination THEN ParseTermination(src, m1)
             ELSE IF hasGoTo THEN ParseGoTo(src, m1)
             ELSE m1, LAMBDA f :
        Bind(IF hasTermination \/ hasGoTo THEN MoveNext(src, f, TRUE, FALSE, FALSE)
             ELSE m1, LAMBDA f1 :
            IF Failed(f1) THEN f1
            ELSE IF samePosition
            THEN Throw(f1, "Invalid basic command \"" \o CurrentValue(src, f1) \o "\".")
            ELSE [f1 EXCEPT !.result =
                      BasicBlock(IF hasChangeTo THEN c.result ELSE Undefined,
                                 IF hasMove THEN m.result ELSE Undefined,
                                 IF hasTermination \/ hasGoTo THEN f.result ELSE NoFlow)]))

\* _parseBasicBlock
ParseBasicBlock(src, p) ==
    LET hasChangeTo == CurrentValue(src, p) = "changeto"
    IN  Bind(IF hasChangeTo THEN ParseChangeTo(src, p) ELSE p, LAMBDA c :
        Bind(IF hasChangeTo THEN CheckDeIndent(src, c) ELSE p, LAMBDA c1 :
            LET finished1 == hasChangeTo /\ DeIndented(c, c1)
                hasMove == ~Failed(c1) /\ ~finished1 /\ CurrentValue(src, c1) = "move"
            IN  Bind(IF hasMove THEN ParseMove(src, c1) ELSE c1, LAMBDA m :
                Bind(IF hasMove THEN CheckDeIndent(src, m) ELSE c1, LAMBDA m1 :
                    ParseBasicBlockFlow(src, hasChangeTo, c, hasMove, m,
                                        finished1 \/ (hasMove /\ DeIndented(m, m1)),
                                        m1)))))

\* _parseCoreBlock, from the last checks on: c is the parser after the
\* changeto command, m after the move command, m1 the parser now
ParseCoreBlockEnd(src, hasChangeTo, c, hasMove, m, finished, m1) ==
    IF Failed(m1) THEN m1
    ELSE IF ~hasChangeTo /\ ~hasMove
    THEN Throw(m1, "Invalid core command \"" \o CurrentValue(src, m1) \o "\".")
    ELSE IF ~finished
    THEN Throw(m1, "A core block must only be composed of a changeto and a move command.")
    ELSE [m1 EXCEPT !.result =
              CoreBasicBlock(IF hasChangeTo THEN c.result ELSE Undefined,
                             IF hasMove THEN m.result ELSE Undefined)]

\* _parseCoreBlock
ParseCoreBlock(src, p) ==
    LET hasChangeTo == CurrentValue(src, p) = "changeto"
    IN  Bind(IF hasChangeTo THEN ParseChangeTo(src, p) ELSE p, LAMBDA c :
        Bind(IF hasChangeTo THEN CheckDeIndent(src, c) ELSE p, LAMBDA c1 :
            LET finished1 == hasChangeTo /\ DeIndented(c, c1)
                hasMove == ~Failed(c1) /\ ~finished1 /\ CurrentValue(src, c1) = "move"
            IN  Bind(IF hasMove THEN ParseMove(src, c1) ELSE c1, LAMBDA m :
                Bind(IF hasMove THEN CheckDeIndent(src, m) ELSE c1, LAMBDA m1 :
                    ParseCoreBlockEnd(src, hasChangeTo, c, hasMove, m,
                                      finished1 \/ (hasMove /\ DeIndented(m, m1)),
                                      m1)))))

RECURSIVE ParseNode(_, _, _, _, _)

\* _doUntilDeIndent with the callback that parses a block and pushes it
ParseBlocks(src, p0) ==
    Bind(p0, LAMBDA p : ParseNode(src, p, "blocks", Len(p.stack), <<>>))

\* _parseElse
ParseElse(src, p) ==
    Bind(ParseBlocks(src, MatchIndent(src, MatchValue(src,
                              MoveOn(src, MatchValue(src, p, "else")), ":"))),
         LAMBDA b :
        IF Failed(b) THEN b ELSE [b EXCEPT !.result = ElseCase(b.result)])

\* _parseIf
ParseIf(src, p) ==
    Bind(ParseValues(src, MoveOn(src, MatchValue(src, p, "if")), ":", TRUE), LAMBDA v :
    Bind(ParseBlocks(src, MatchIndent(src, v)), LAMBDA b :
        IF Failed(b) THEN b ELSE [b EXCEPT !.result = IfCase(v.result, b.result)]))

\* _parseWhile
ParseWhile(src, p) ==
    Bind(ParseValues(src, MoveOn(src, MatchValue(src, p, "while")), ":", TRUE), LAMBDA v :
    Bind(MatchIndent(src, v), LAMBDA p2 :
    Bind(IF Failed(p2) THEN p2 ELSE ParseCoreBlock(src, p2), LAMBDA b :
        IF Failed(b) THEN b ELSE [b EXCEPT !.result = WhileCase(v.result, b.result)])))

\* a variant of the callback of _parseSwitchBlock that takes a token that
\* starts no case for the basic block of a case
ParseCase_AnyToken(src, p) ==
    IF CurrentValue(src, p) = "if" THEN ParseIf(src, p)
    ELSE IF CurrentValue(src, p) = "while" THEN ParseWhile(src, p)
    ELSE IF CurrentValue(src, p) = "else" THEN ParseElse(src, p)
    ELSE Bind(ParseBasicBlock(src, p), LAMBDA b :
             IF Failed(b) THEN b ELSE [b EXCEPT !.result = ElseCase(<<b.result>>)])

\* _parseSwitchBlock: the callback of _doUntilDeIndent
ParseCase(src, p) ==
    IF CurrentValue(src, p) = "if" THEN ParseIf(src, p)
    ELSE IF CurrentValue(src, p) = "while" THEN ParseWhile(src, p)
    ELSE IF CurrentValue(src, p) = "else" THEN ParseElse(src, p)
    ELSE Throw(p, "Unexpected start of case: \"" \o CurrentValue(src, p) \o "\".")

\* _parseSwitchBlock
ParseSwitchBlock(src, p) ==
    Bind(ParseNode(src, p, "cases", Len(p.stack), <<>>), LAMBDA c :
        IF Failed(c) THEN c ELSE [c EXCEPT !.result = SwitchBlock(c.result)])

\* _parseBlock
ParseBlock(src, p) ==
    IF CurrentValue(src, p) \in {"if", "else", "while"} THEN ParseSwitchBlock(src, p)
    ELSE ParseBasicBlock(src, p)

\* _doUntilDeIndent: the loop, over the blocks of a body ("blocks") or the
\* cases of a switch block ("cases"); prev is prevStackLength, acc what the
\* callback has pushed
ParseNode(src, p, kind, prev, acc) ==
    IF Failed(p) THEN p
    ELSE IF p.reachedEnd \/ Len(p.stack) < prev THEN [p EXCEPT !.result = acc]
    ELSE Bind(IF kind = "blocks" THEN ParseBlock(src, p) ELSE ParseCase(src, p),
              LAMBDA q :
             Bind(IF Failed(q) THEN acc ELSE Append(acc, q.result), LAMBDA pushed :
                 ParseNode(src, q, kind, prev, pushed)))

\* _parseModule
ParseModule(src, p) ==
    Bind(MoveOn(src, MatchValue(src, p, "module")), LAMBDA p1 :
    Bind(ParseValues(src, MoveOn(src, MatchValue(src, MoveOn(src, p1), "(")), ")", FALSE),
         LAMBDA ps :
    Bind(ParseBlocks(src, MatchIndent(src, MatchValue(src, MoveOn(src, ps), ":"))),
         LAMBDA b :
        IF Failed(b) THEN b
        ELSE [b EXCEPT !.result = Module(CurrentValue(src, p1), ps.result, b.result)])))

RECURSIVE ParseModulesFrom(_, _, _)
\* _parseProgram: the while loop
ParseModulesFrom(src, p, modules) ==
    IF Failed(p) THEN p
    ELSE IF p.reachedEnd THEN [p EXCEPT !.result = modules]
    ELSE Bind(ParseModule(src, p), LAMBDA q :
         Bind(IF Failed(q) THEN modules ELSE Append(modules, q.result), LAMBDA pushed :
             ParseModulesFrom(src, q, pushed)))

\* _parseProgram
ParseProgram(src, p0) ==
    Bind(ParseAlphabet(src, p0), LAMBDA a :
    Bind(MoveNext(src, a, FALSE, FALSE, FALSE), LAMBDA q :
    Bind(ParseModulesFrom(src, q, <<>>), LAMBDA ms :
        IF Failed(ms) THEN ms ELSE [ms EXCEPT !.result = Program(a.result, ms.result)])))

\* parse()
Parse(src) == ParseProgram(src, MoveOn(src, NewParser))

\* ------------------------------------------------------------------------
\* CodeExecutor: the operations on the frame stacks
\* ------------------------------------------------------------------------

TapeNotValid == "The tape is not valid for the given TM Program."

\* a variant of _validateTapeValue that looks at the first character only
ValidateTapeValue_FirstOnly(value, program) ==
    IF Len(value) > 0 /\ ~IsWhitespace(value[1]) /\ value[1] \notin Range(program.alphabet)
    THEN TapeNotValid
    ELSE Ok

\* _validateTapeValue: every character is whitespace or in the alphabet
ValidateTapeValue(value, program) ==
    IF \E i \in 1..Len(value) :
          ~IsWhitespace(value[i]) /\ value[i] \notin Range(program.alphabet)
    THEN TapeNotValid
    ELSE Ok

\* the four stacks and the status of an executor
Frames(blocks, index, maps, flags, status) ==
    [currentBlocksStack |-> blocks, currentBlockIndexStack |-> index,
     argumentMapStack |-> maps, topLevelModuleStack |-> flags,
     terminationStatus |-> status]

\* a variant of _pushBlocks that pushes the current argument map again for
\* a frame that is not the frame of a module
PushBlocks_CopyMap(fr, blocks, pushingModule) ==
    [fr EXCEPT !.currentBlocksStack = Append(@, blocks),
               !.currentBlockIndexStack = Append(@, 0),
               !.topLevelModuleStack = Append(@, pushingModule),
               !.argumentMapStack = IF pushingModule THEN @ ELSE Append(@, Last(@))]

\* _pushBlocks
PushBlocks(fr, blocks, pushingModule) ==
    [fr EXCEPT !.currentBlocksStack = Append(@, blocks),
               !.currentBlockIndexStack = Append(@, 0),
               !.topLevelModuleStack = Append(@, pushingModule)]

\* the entry i of the argument map built by _generateAndPushArgumentMap
ArgumentMapEntry(params, args, i, m) ==
    MapStore(m, Some(args[i]), IF i <= Len(params) THEN Some(params[i]) ELSE None)

RECURSIVE BuildArgumentMap(_, _, _, _)
BuildArgumentMap(params, args, i, m) ==
    IF i > Len(args) THEN m
    ELSE BuildArgumentMap(params, args, i + 1, ArgumentMapEntry(params, args, i, m))

\* _generateAndPushArgumentMap
GenerateAndPushArgumentMap(fr, params, args) ==
    [fr EXCEPT !.argumentMapStack = Append(@, BuildArgumentMap(params, args, 1, EmptyMap))]

\* a variant of the round of the loop of _incrementIndexAndPop that leaves
\* the argument maps on their stack
PopFrame_KeepMap(fr) ==
    [fr EXCEPT !.currentBlocksStack = Front(@),
               !.currentBlockIndexStack = Front(@),
               !.topLevelModuleStack = Front(@)]

\* the frame popped by one round of the loop of _incrementIndexAndPop
PopFrame(fr) ==
    [fr EXCEPT !.currentBlocksStack = Front(@),
               !.currentBlockIndexStack = Front(@),
               !.argumentMapStack = IF Last(fr.topLevelModuleStack) THEN Front(@) ELSE @,
               !.topLevelModuleStack = Front(@)]

\* _incrementIndex: the index of the top frame moves on by one
IncrementIndex(fr) ==
    [fr EXCEPT !.currentBlockIndexStack = SetTop(@, Last(@) + 1)]

\* the value _incrementIndex returns: the block was not the final block
NotFinalBlock(fr) ==
    Last(fr.currentBlockIndexStack) + 1 < Len(Last(fr.currentBlocksStack))

RECURSIVE IncrementIndexAndPop(_)

\* a variant of _incrementIndexAndPop that pops one frame at most
IncrementIndexAndPop_Once(fr) ==
    IF Len(fr.currentBlocksStack) = 0 THEN fr
    ELSE IF NotFinalBlock(fr) THEN IncrementIndex(fr)
    ELSE PopFrame(IncrementIndex(fr))

\* _incrementIndexAndPop
IncrementIndexAndPop(fr) ==
    IF Len(fr.currentBlocksStack) = 0 THEN fr
    ELSE IF NotFinalBlock(fr) THEN IncrementIndex(fr)
    ELSE IncrementIndexAndPop(PopFrame(IncrementIndex(fr)))

\* currentBlock is a block, not undefined, while the run is not terminated
HasCurrentBlock(fr) ==
    /\ Len(fr.currentBlocksStack) > 0
    /\ Last(fr.currentBlockIndexStack) < Len(Last(fr.currentBlocksStack))

\* currentBlock, while the run is not terminated
CurrentBlock(fr) ==
    Last(fr.currentBlocksStack)[Last(fr.currentBlockIndexStack) + 1]

\* the cases of a switch block that apply to the tapehead, in order
ApplyingCases(block, tapehead, argumentMap) ==
    {i \in 1..Len(block.cases) : Applies(block.cases[i], tapehead, argumentMap)}

\* a variant of _findExecutionBlock that pushes the blocks of a case of any
\* type
FindExecutionBlock_PushAnyCase(fr, tapehead) ==
    LET currentBlock == CurrentBlock(fr)
    IN IF ~HasCurrentBlock(fr)
       THEN [found |-> FALSE, block |-> Undefined, frames |-> fr]
       ELSE IF currentBlock.type = "basic"
       THEN [found |-> TRUE, block |-> currentBlock, frames |-> fr]
       ELSE IF currentBlock.type # "switch"
       THEN [found |-> FALSE, block |-> Undefined, frames |-> fr]
       ELSE LET applying == ApplyingCases(currentBlock, tapehead, Last(fr.argumentMapStack))
            IN IF applying = {}
               THEN [found |-> FALSE, block |-> Undefined, frames |-> fr]
               ELSE LET caseBlock == currentBlock.cases[MinOf(applying)]
                    IN [found |-> TRUE, block |-> FirstBlock(caseBlock),
                        frames |-> PushBlocks(fr, caseBlock.blocks, FALSE)]

\* _findExecutionBlock: the block to execute and the frames after the push
\* for an if or else case; found is false when no block or no case is there,
\* or when the current block is neither a basic nor a switch block
FindExecutionBlock(fr, tapehead) ==
    LET currentBlock == CurrentBlock(fr)
    IN IF ~HasCurrentBlock(fr)
       THEN [found |-> FALSE, block |-> Undefined, frames |-> fr]
       ELSE IF currentBlock.type = "basic"
       THEN [found |-> TRUE, block |-> currentBlock, frames |-> fr]
       ELSE IF currentBlock.type # "switch"
       THEN [found |-> FALSE, block |-> Undefined, frames |-> fr]
       ELSE LET applying == ApplyingCases(currentBlock, tapehead, Last(fr.argumentMapStack))
            IN IF applying = {}
               THEN [found |-> FALSE, block |-> Undefined, frames |-> fr]
               ELSE LET caseBlock == currentBlock.cases[MinOf(applying)]
                    IN [found |-> TRUE, block |-> FirstBlock(caseBlock),
                        frames |-> IF caseBlock.type \in {"if", "else"}
                                   THEN PushBlocks(fr, caseBlock.blocks, FALSE)
                                   ELSE fr]

\* the letter _execute writes
WrittenLetter(block, letter) ==
    IF block.changeTo = Undefined THEN letter ELSE block.changeTo

\* the direction _execute moves in
MoveDirection(block) ==
    IF block.move = Undefined THEN LEFT ELSE block.move

\* program.modules.find(module => module.identifier === identifier): the
\* first module of the name
FindModule(program, identifier) ==
    program.modules[MinOf({i \in 1..Len(program.modules) :
                             program.modules[i].identifier = identifier})]

\* _findNextBlock
FindNextBlock(fr, program, executionBlock) ==
    LET flowCommand == executionBlock.flow
    IN IF flowCommand.type = "goto"
       THEN LET nextModule == FindModule(program, flowCommand.identifier)
            IN GenerateAndPushArgumentMap(PushBlocks(fr, nextModule.blocks, TRUE),
                                          nextModule.params, flowCommand.args)
       ELSE IF flowCommand.type = "term"
       THEN [fr EXCEPT !.terminationStatus = flowCommand.state]
       ELSE LET popped == IncrementIndexAndPop(fr)
            IN IF Len(popped.currentBlocksStack) = 0
               THEN [popped EXCEPT !.terminationStatus = REJECT]
               ELSE popped

\* ------------------------------------------------------------------------
\* The state machine: a parsed program is compiled, an executor is
\* constructed on a tape string, and execute() is called step by step while
\* the compiled machine is driven on a tape of its own
\* ------------------------------------------------------------------------

VARIABLES
    source,                   \* the code given to the CodeParser, as lines of tokens
    parser,                   \* the CodeParser: its wrapper, reachedEnd and outcome
    program,                  \* the ProgramContext
    validation,               \* what validate() of each CodeValidator gave
    phase,                    \* "parsed", "validated", "converted", "diverged", "constructed" or "failed"
    turingMachine,            \* the result of convert()
    value,                    \* the tape string given to the constructor
    constructorError,         \* the message thrown by the constructor, or "ok"
    valueMap,                 \* TMTape._valueMap of the executor
    currentIndex,             \* TMTape.currentIndex of the executor
    currentBlocksStack,
    currentBlockIndexStack,
    argumentMapStack,
    topLevelModuleStack,
    terminationStatus,
    calls,                    \* number of execute() calls made
    returned,                 \* what the last execute() returned
    thrown,                   \* the last execute() ended in a TypeError
    executed,                 \* what the last execute() did
    tmState,                  \* the label the driven machine is in
    tmValueMap,               \* the tape of the driven machine
    tmIndex,
    tmSteps,                  \* number of steps the driver was asked for
    tmStuck,                  \* the machine has no state or transition to take
    tmExecuted                \* what the last step of the machine did

vars == <<source, parser, program, validation, phase, turingMachine, value, constructorError, valueMap, currentIndex,
          currentBlocksStack, currentBlockIndexStack, argumentMapStack,
          topLevelModuleStack, terminationStatus, calls, returned, thrown, executed,
          tmState, tmValueMap, tmIndex, tmSteps, tmStuck, tmExecuted>>

executorVars == <<valueMap, currentIndex, currentBlocksStack, currentBlockIndexStack,
                  argumentMapStack, topLevelModuleStack, terminationStatus, calls,
                  returned, thrown, executed>>

machineVars == <<tmState, tmValueMap, tmIndex, tmSteps, tmStuck, tmExecuted>>

\* validate() was not called
NotValidated == [older |-> Undefined, newer |-> Undefined]

\* the frames of the executor in the current state
CurrentFrames ==
    Frames(currentBlocksStack, currentBlockIndexStack, argumentMapStack,
           topLevelModuleStack, terminationStatus)

\* what a step did: the letter written, the direction moved in, and the
\* final status or "running"
Step(letter, direction, status) ==
    [letter |-> letter, direction |-> direction, status |-> status]

NoStep == Step(Undefined, Undefined, Undefined)

StatusOf(status) == IF status = Undefined THEN "running" ELSE status

Init ==
    /\ source = <<>>
    /\ parser = NewParser
    /\ program \in Programs
    /\ validation = NotValidated
    /\ phase = "parsed"
    /\ turingMachine = [initialState |-> Undefined, states |-> EmptyFn, added |-> <<>>,
                        visited |-> <<>>, unfinished |-> FALSE]
    /\ value = <<>>
    /\ constructorError = Ok
    /\ valueMap = EmptyFn
    /\ currentIndex = 0
    /\ currentBlocksStack = <<>>
    /\ currentBlockIndexStack = <<>>
    /\ argumentMapStack = <<>>
    /\ topLevelModuleStack = <<>>
    /\ terminationStatus = Undefined
    /\ calls = 0
    /\ returned = Undefined
    /\ thrown = FALSE
    /\ executed = NoStep
    /\ tmState = Undefined
    /\ tmValueMap = EmptyFn
    /\ tmIndex = 0
    /\ tmSteps = 0
    /\ tmStuck = FALSE
    /\ tmExecuted = NoStep

\* new CodeValidator(program).validate(), for the CodeValidator of
\* src/src/CodeValidator.ts (older) and for the one that asks for an else
\* case (newer): the message thrown, or "ok"
ValidateProgram ==
    /\ phase = "parsed"
    /\ phase' = "validated"
    /\ validation' = [older |-> Validate(program), newer |-> Validate2(program)]
    /\ UNCHANGED <<source, parser, program, turingMachine, value, constructorError>>
    /\ UNCHANGED executorVars
    /\ UNCHANGED machineVars

\* new CodeConverter(program).convert(), of a program a validator accepted;
\* a conversion in which visitGoTo calls itself without end does not return,
\* and the phase is then diverged
ConvertProgram ==
    /\ phase = "validated"
    /\ (validation.older = Ok \/ validation.newer = Ok)
    /\ \E tm \in {Convert(program)} :
          /\ turingMachine' = tm
          /\ phase' = IF tm.unfinished THEN "diverged" ELSE "converted"
    /\ UNCHANGED <<source, parser, program, validation, value, constructorError>>
    /\ UNCHANGED executorVars
    /\ UNCHANGED machineVars

\* new CodeExecutor(v, program), and a tape of the same string for the
\* compiled machine, which starts in its initial state
Construct(v) ==
    /\ phase = "converted"
    /\ value' = v
    /\ constructorError' = ValidateTapeValue(v, program)
    /\ phase' = IF ValidateTapeValue(v, program) = Ok THEN "constructed" ELSE "failed"
    /\ valueMap' = TapeOf(v)
    /\ currentIndex' = 0
    /\ IF ValidateTapeValue(v, program) = Ok
       THEN /\ currentBlocksStack' = <<program.modules[1].blocks>>
            /\ currentBlockIndexStack' = <<0>>
            /\ argumentMapStack' = <<EmptyMap>>
            /\ topLevelModuleStack' = <<TRUE>>
       ELSE UNCHANGED <<currentBlocksStack, currentBlockIndexStack, argumentMapStack,
                        topLevelModuleStack>>
    /\ tmState' = turingMachine.initialState
    /\ tmValueMap' = TapeOf(v)
    /\ tmIndex' = 0
    /\ UNCHANGED <<source, parser, program, validation, turingMachine, terminationStatus, calls, returned, thrown,
                   executed, tmSteps, tmStuck, tmExecuted>>

\* a variant of execute() on a terminated run that steps the head once more
ExecuteTerminated_Moving ==
    /\ terminationStatus # Undefined
    /\ returned' = FALSE
    /\ currentIndex' = currentIndex - 1
    /\ UNCHANGED <<valueMap, currentBlocksStack, currentBlockIndexStack,
                   argumentMapStack, topLevelModuleStack, terminationStatus, thrown,
                   executed>>

\* execute() on a run that is terminated: nothing but the return value
ExecuteTerminated ==
    /\ terminationStatus # Undefined
    /\ returned' = FALSE
    /\ UNCHANGED <<valueMap, currentIndex, currentBlocksStack, currentBlockIndexStack,
                   argumentMapStack, topLevelModuleStack, terminationStatus, thrown,
                   executed>>

\* execute() on a run that is not terminated
ExecuteRunning ==
    /\ terminationStatus = Undefined
    /\ LET tapehead == TapeGet(valueMap, currentIndex)
           found == FindExecutionBlock(CurrentFrames, tapehead)
           executionBlock == found.block
           letter == WrittenLetter(executionBlock, tapehead)
           changed == TapeChange(valueMap, currentIndex, letter)
           next == IF executionBlock.type = "basic"
                   THEN FindNextBlock(found.frames, program, executionBlock)
                   ELSE found.frames
       IN IF ~found.found
          THEN /\ thrown' = TRUE
               /\ UNCHANGED <<valueMap, currentIndex, currentBlocksStack,
                              currentBlockIndexStack, argumentMapStack,
                              topLevelModuleStack, terminationStatus, returned, executed>>
          ELSE /\ valueMap' = changed
               /\ currentIndex' = TapeMove(changed, currentIndex, MoveDirection(executionBlock))
               /\ currentBlocksStack' = next.currentBlocksStack
               /\ currentBlockIndexStack' = next.currentBlockIndexStack
               /\ argumentMapStack' = next.argumentMapStack
               /\ topLevelModuleStack' = next.topLevelModuleStack
               /\ terminationStatus' = next.terminationStatus
               /\ returned' = TRUE
               /\ executed' = Step(letter, MoveDirection(executionBlock),
                                   StatusOf(next.terminationStatus))
               /\ UNCHANGED thrown

\* one call of execute(); the driver of the compiled machine follows it
Execute ==
    /\ phase = "constructed"
    /\ ~thrown
    /\ calls < MaxSteps
    /\ tmSteps = calls
    /\ calls' = calls + 1
    /\ \/ ExecuteTerminated
       \/ ExecuteRunning
    /\ UNCHANGED <<source, parser, program, validation, phase, turingMachine, value, constructorError>>
    /\ UNCHANGED machineVars

\* the compiled machine has stopped: its state is a termination state
TMTerminated == tmState \in TerminationStates

\* the transition the machine takes on the letter under its head
TMCanStep ==
    /\ tmState \in DOMAIN turingMachine.states
    /\ TapeGet(tmValueMap, tmIndex) \in DOMAIN turingMachine.states[tmState].trans

\* one step of the driver of the compiled machine: the transition of the
\* current state for the letter read is applied to the tape
Transition ==
    /\ phase = "constructed"
    /\ tmSteps < calls
    /\ tmSteps' = tmSteps + 1
    /\ IF TMTerminated \/ tmStuck
       THEN UNCHANGED <<tmState, tmValueMap, tmIndex, tmStuck, tmExecuted>>
       ELSE IF ~TMCanStep
       THEN /\ tmStuck' = TRUE
            /\ UNCHANGED <<tmState, tmValueMap, tmIndex, tmExecuted>>
       ELSE LET change == turingMachine.states[tmState].trans[TapeGet(tmValueMap, tmIndex)]
                changed == TapeChange(tmValueMap, tmIndex, change.letter)
            IN /\ tmValueMap' = changed
               /\ tmIndex' = TapeMove(changed, tmIndex, change.direction)
               /\ tmState' = change.nextState
               /\ tmExecuted' = Step(change.letter, change.direction,
                                     IF change.nextState \in TerminationStates
                                     THEN change.nextState ELSE "running")
               /\ UNCHANGED tmStuck
    /\ UNCHANGED <<source, parser, program, validation, phase, turingMachine, value, constructorError>>
    /\ UNCHANGED executorVars

Next ==
    \/ ValidateProgram
    \/ ConvertProgram
    \/ \E v \in TapeStrings : Construct(v)
    \/ Execute
    \/ Transition

Spec == Init /\ [][Next]_vars

\* ------------------------------------------------------------------------
\* A TMTape on its own: new TMTape(value), then change and move calls
\* ------------------------------------------------------------------------

\* the directions handed to move: those of Direction and a value that is
\* none of them
MoveDirections == {LEFT, RIGHT, START, END, "up"}

\* new TMTape(v); no program is compiled or run
InitTape ==
    /\ source = <<>>
    /\ parser = NewParser
    /\ program = Program(AB, <<Module("main", <<>>, <<BB("b", Undefined, NoFlow)>>)>>)
    /\ validation = NotValidated
    /\ phase = "tape"
    /\ turingMachine = [initialState |-> Undefined, states |-> EmptyFn, added |-> <<>>,
                        visited |-> <<>>, unfinished |-> FALSE]
    /\ value \in TapeStrings
    /\ constructorError = Ok
    /\ valueMap = TapeOf(value)
    /\ currentIndex = 0
    /\ currentBlocksStack = <<>>
    /\ currentBlockIndexStack = <<>>
    /\ argumentMapStack = <<>>
    /\ topLevelModuleStack = <<>>
    /\ terminationStatus = Undefined
    /\ calls = 0
    /\ returned = Undefined
    /\ thrown = FALSE
    /\ executed = NoStep
    /\ tmState = Undefined
    /\ tmValueMap = EmptyFn
    /\ tmIndex = 0
    /\ tmSteps = 0
    /\ tmStuck = FALSE
    /\ tmExecuted = NoStep

\* the variables no call on the tape touches
TapeFrame ==
    UNCHANGED <<source, parser, program, validation, phase, turingMachine, value, constructorError,
                currentBlocksStack, currentBlockIndexStack, argumentMapStack,
                topLevelModuleStack, terminationStatus, returned, thrown>>
    /\ UNCHANGED machineVars

\* tape.move(d)
TapeMoveCall(d) ==
    /\ phase = "tape"
    /\ calls < MaxTapeOps
    /\ currentIndex' = TapeMove(valueMap, currentIndex, d)
    /\ valueMap' = valueMap
    /\ calls' = calls + 1
    /\ executed' = Step(Undefined, d, "move")
    /\ TapeFrame

\* tape.change(l)
TapeChangeCall(l) ==
    /\ phase = "tape"
    /\ calls < MaxTapeOps
    /\ valueMap' = TapeChange(valueMap, currentIndex, l)
    /\ currentIndex' = currentIndex
    /\ calls' = calls + 1
    /\ executed' = Step(l, Undefined, "change")
    /\ TapeFrame

NextTape ==
    \/ \E d \in MoveDirections : TapeMoveCall(d)
    \/ \E l \in {"a", "b", Blank, "\t"} : TapeChangeCall(l)

SpecTape == InitTape /\ [][NextTape]_vars

\* ------------------------------------------------------------------------
\* Properties
\* ------------------------------------------------------------------------

\* the executor and the compiled machine have taken the same number of steps
\* on a validated program
InStep ==
    /\ phase = "constructed"
    /\ Validated(program)
    /\ tmSteps = calls

\* C1: for every validated program and valid tape, each execute() of the
\* interpreter and the matching step of the compiled machine write the same
\* symbol, move the head in the same direction and reach the same status
\* (running, or the same final status); neither of the two fails to step
C1_SameSteps ==
    InStep => (~thrown /\ ~tmStuck /\ executed = tmExecuted)

\* a step of the state machine is a call of execute() that returned
ExecuteReturned == calls' = calls + 1 /\ ~thrown'

\* C2: an execute() that returns gives true exactly when the run was not
\* terminated at the call; a termination status that is set never changes;
\* an execute() on a terminated run returns false and leaves the tape, the
\* head and the four frame stacks as they were
C2_ExecuteReturn ==
    [][/\ ExecuteReturned => (returned' = (terminationStatus = Undefined))
       /\ terminationStatus # Undefined => terminationStatus' = terminationStatus
       /\ (ExecuteReturned /\ terminationStatus # Undefined) =>
             UNCHANGED <<valueMap, currentIndex, currentBlocksStack,
                         currentBlockIndexStack, argumentMapStack,
                         topLevelModuleStack>>]_vars

\* execute() was called on a run that had terminated, after calls that ran
C2_Witness ==
    /\ terminationStatus # Undefined
    /\ returned = FALSE
    /\ calls >= 3
    /\ executed.status = terminationStatus

\* the letters a state can read: the alphabet and the blank
Letters(p) == Range(p.alphabet) \cup {Blank}

\* the label of block i (counted from 1) of a module invocation
BlockLabel(identifier, args, i) ==
    ModuleLabelOf(identifier, args) \o "-" \o ToString(i - 1)

\* the letters on which case k of a switch block is the first case to apply,
\* in an invocation with the given parameter binding
LettersOfCase(p, block, k, binding) ==
    {l \in Letters(p) :
        /\ Applies(block.cases[k], l, EmptyMap)
           \/ \E v \in Range(block.cases[k].values) : GetNextValue(v, binding) = l
        /\ \A j \in 1..(k - 1) :
              /\ ~Applies(block.cases[j], l, EmptyMap)
              /\ \A v \in Range(block.cases[j].values) : GetNextValue(v, binding) # l}

\* the parameter binding of an invocation: parameter i is argument i
BindingOf(module, args) ==
    [i \in 1..Len(args) |-> <<Some(module.params[i]), Some(args[i])>>]

\* the machine has the state of the first block of the module a goto names,
\* built in a visit of the module with the arguments of the goto
FirstBlockBuilt(command) ==
    /\ GoToLabel(command) \in DOMAIN turingMachine.states
    /\ <<command.identifier, command.args>> \in Range(turingMachine.visited)
    /\ turingMachine.states[GoToLabel(command)].kind =
          IF ModuleOf(program, command.identifier).blocks[1].type = "switch"
          THEN "variable" ELSE "constant"

\* every transition a goto of block i of the invocation gives has the label
\* of the goto as next state
GoToTargets(identifier, args, i) ==
    LET module == ModuleOf(program, identifier)
        block == module.blocks[i]
        label == BlockLabel(identifier, args, i)
    IN /\ label \in DOMAIN turingMachine.states
       /\ (block.type = "basic" /\ block.flow.type = "goto") =>
             /\ FirstBlockBuilt(block.flow)
             /\ \A l \in Letters(program) :
                   turingMachine.states[label].trans[l].nextState = GoToLabel(block.flow)
       /\ block.type = "switch" =>
             \A k \in 1..Len(block.cases) :
                (block.cases[k].type # "while" /\ FirstBlock(block.cases[k]).flow.type = "goto") =>
                   /\ FirstBlockBuilt(FirstBlock(block.cases[k]).flow)
                   /\ \A l \in LettersOfCase(program, block, k, BindingOf(module, args)) :
                         turingMachine.states[label].trans[l].nextState =
                            GoToLabel(FirstBlock(block.cases[k]).flow)

\* C3: in one convert() run no (module identifier, argument tuple) pair is
\* visited twice, and every goto of a block of a visited module gives
\* transitions whose next state is the one label of the first block of the
\* invocation it names, whichever block the goto stands in
C3_BuiltOnce ==
    phase # "parsed" =>
       /\ \A i, j \in 1..Len(turingMachine.visited) :
             turingMachine.visited[i] = turingMachine.visited[j] => i = j
       /\ \A n \in 1..Len(turingMachine.visited) :
             \A i \in 1..Len(ModuleOf(program, turingMachine.visited[n][1]).blocks) :
                GoToTargets(turingMachine.visited[n][1], turingMachine.visited[n][2], i)

\* two cases of the first block go to the same module with the same
\* arguments, and the machine was built
C3_Witness ==
    /\ phase = "converted"
    /\ program.modules[1].blocks[1].type = "switch"
    /\ Len(program.modules[1].blocks[1].cases) = 2
    /\ FirstBlock(program.modules[1].blocks[1].cases[1]).flow.type = "goto"
    /\ FirstBlock(program.modules[1].blocks[1].cases[1]).flow.args # <<>>
    /\ FirstBlock(program.modules[1].blocks[1].cases[1]).flow =
          FirstBlock(program.modules[1].blocks[1].cases[2]).flow
    /\ turingMachine.states["main-0"].trans["a"].nextState =
          turingMachine.states["main-0"].trans["b"].nextState
    /\ Len(turingMachine.visited) = 2

RECURSIVE GoTosIn(_)
\* the goto commands of a sequence of blocks, those of the blocks of the
\* cases of its switch blocks among them
GoTosIn(blocks) ==
    UNION {IF b.type = "switch" THEN UNION {GoTosIn(c.blocks) : c \in Range(b.cases)}
           ELSE IF b.type = "basic" /\ b.flow.type = "goto" THEN {b.flow}
           ELSE {} : b \in Range(blocks)}

\* the goto commands of a module
GoTosOf(module) == GoTosIn(module.blocks)

RECURSIVE ReachableFrom(_, _)
\* the (identifier, arguments) pairs reachable through goto from a set of pairs
ReachableFrom(p, pairs) ==
    LET more == pairs \cup {<<g.identifier, g.args>> :
                              g \in UNION {GoTosOf(ModuleOf(p, pair[1])) : pair \in pairs}}
    IN IF more = pairs THEN pairs ELSE ReachableFrom(p, more)

\* the pairs reachable from the entry module
ReachablePairs(p) == ReachableFrom(p, {<<p.modules[1].identifier, <<>>>>})

\* some reachable module reaches itself through goto
SelfReaching(p) ==
    \E pair \in ReachablePairs(p) :
       \E g \in GoTosOf(ModuleOf(p, pair[1])) :
          \E q \in ReachableFrom(p, {<<g.identifier, g.args>>}) : q[1] = pair[1]

RECURSIVE CountBlocks(_), CountCases(_)
\* the number of blocks of a sequence of blocks, the blocks of the cases of
\* its switch blocks counted in
CountBlocks(blocks) ==
    IF Len(blocks) = 0 THEN 0
    ELSE 1 + (IF Head(blocks).type = "switch" THEN CountCases(Head(blocks).cases) ELSE 0)
           + CountBlocks(Tail(blocks))

CountCases(cases) ==
    IF Len(cases) = 0 THEN 0
    ELSE CountBlocks(Head(cases).blocks) + CountCases(Tail(cases))

\* the block count of a module
BlockCount(module) == CountBlocks(module.blocks)

RECURSIVE BlockCountOver(_, _)
\* the block counts of the modules of a set of pairs, added up
BlockCountOver(p, pairs) ==
    IF pairs = {} THEN 0
    ELSE LET pair == CHOOSE q \in pairs : TRUE
         IN BlockCount(ModuleOf(p, pair[1])) + BlockCountOver(p, pairs \ {pair})

\* C4: for a validated program in which a module reaches itself through
\* goto, convert() comes to an end, visits only pairs reachable from the
\* entry module, and adds at most as many states as the block counts of the
\* modules of the reachable (module, argument tuple) pairs add up to
C4_Bounded ==
    (phase # "parsed" /\ Validated(program) /\ SelfReaching(program)) =>
       /\ ~turingMachine.unfinished
       /\ Range(turingMachine.visited) \subseteq ReachablePairs(program)
       /\ Len(turingMachine.added) <= BlockCountOver(program, ReachablePairs(program))
       /\ Cardinality(DOMAIN turingMachine.states) <= Len(turingMachine.added)

\* the block the next execute() runs, when the run is not terminated
NextExecutionBlock ==
    FindExecutionBlock(CurrentFrames, TapeGet(valueMap, currentIndex)).block

\* the next step is an execute() that runs a block with a goto command
ExecutesGoTo ==
    /\ ExecuteReturned
    /\ terminationStatus = Undefined
    /\ NextExecutionBlock.type = "basic"
    /\ NextExecutionBlock.flow.type = "goto"

\* C5: in the frame an execute() pushes for a goto, parameter i of the
\* module gone to stands for argument i of the goto: a case whose trigger
\* value is that parameter applies to a letter read from the tape exactly
\* when the letter is that argument
C5_ParameterBinding ==
    [][ExecutesGoTo =>
          LET command == NextExecutionBlock.flow
              params == ModuleOf(program, command.identifier).params
              pushed == Last(argumentMapStack')
          IN \A i \in 1..Len(command.args) :
                \A l \in Letters(program) :
                   Applies(IfCase(<<params[i]>>, <<>>), l, pushed) <=> (l = command.args[i])]_vars

\* every frame of a stack of frames is at its last block
NoFollowingBlock(fr) ==
    \A k \in 1..Len(fr.currentBlocksStack) :
       fr.currentBlockIndexStack[k] + 1 >= Len(fr.currentBlocksStack[k])

\* the next step is an execute() that runs a basic block without a flow
\* command when no frame, the frame of an if or else case just entered
\* among them, has a following block
ExecutesLastBlock ==
    /\ ExecuteReturned
    /\ terminationStatus = Undefined
    /\ NextExecutionBlock.type = "basic"
    /\ NextExecutionBlock.flow.type = "none"
    /\ NoFollowingBlock(FindExecutionBlock(CurrentFrames, TapeGet(valueMap, currentIndex)).frames)

\* C6: an execute() of a basic block without a flow command, when no frame
\* on the stack has a following block, empties the four frame stacks and
\* sets the status to reject; when some frame has a following block the run
\* goes on with a frame on the stack
C6_FallThroughRejects ==
    [][/\ ExecutesLastBlock =>
             /\ currentBlocksStack' = <<>>
             /\ currentBlockIndexStack' = <<>>
             /\ topLevelModuleStack' = <<>>
             /\ argumentMapStack' = <<>>
             /\ terminationStatus' = REJECT
       /\ (/\ ExecuteReturned
           /\ terminationStatus = Undefined
           /\ NextExecutionBlock.type = "basic"
           /\ NextExecutionBlock.flow.type = "none"
           /\ ~ExecutesLastBlock) =>
             /\ terminationStatus' = Undefined
             /\ Len(currentBlocksStack') > 0]_vars

\* a run fell through the last block of a module entered by goto from the
\* last block of the entry module, and ended with reject and no frame
C6_Witness ==
    /\ terminationStatus = REJECT
    /\ currentBlocksStack = <<>>
    /\ calls >= 2
    /\ Len(program.modules) = 2
    /\ Last(program.modules[1].blocks).type = "basic"
    /\ Last(program.modules[1].blocks).flow.type = "goto"
    /\ Last(program.modules[2].blocks).type = "basic"
    /\ Last(program.modules[2].blocks).flow.type = "none"
    /\ executed.status = REJECT

\* some character of the tape string is neither white space nor a letter of
\* the alphabet of the program
HasForeignCharacter ==
    \E i \in 1..Len(value) :
        value[i] \notin WhitespaceChars /\ value[i] \notin Range(program.alphabet)

\* C7: the constructor fails, with the message "The tape is not valid for
\* the given TM Program.", exactly when the tape string has a character that
\* is neither whitespace nor in the alphabet; otherwise the executor is
\* constructed with the first block of the entry module as current block,
\* the tape as given, and no step taken
C7_TapeValidation ==
    phase \in {"constructed", "failed"} =>
       /\ (phase = "failed") <=> HasForeignCharacter
       /\ constructorError =
             IF HasForeignCharacter
             THEN "The tape is not valid for the given TM Program." ELSE Ok
       /\ phase = "failed" => calls = 0
       /\ (phase = "constructed" /\ calls = 0) =>
             /\ HasCurrentBlock(CurrentFrames)
             /\ CurrentBlock(CurrentFrames) = program.modules[1].blocks[1]
             /\ Len(currentBlocksStack) = 1
             /\ terminationStatus = Undefined
             /\ executed = NoStep
             /\ currentIndex = 0
             /\ \A i \in 1..Len(value) :
                   TapeGet(valueMap, i - 1) =
                       IF value[i] \in WhitespaceChars THEN Blank ELSE value[i]

\* the constructor failed on a tape string that starts with a space and a
\* letter of the alphabet and ends with a character outside the alphabet
C7_Witness ==
    /\ phase = "failed"
    /\ constructorError = TapeNotValid
    /\ Len(value) = MaxTapeLen
    /\ value[1] \in {" ", "a"}
    /\ value[Len(value)] = "c"

\* the label of block j (counted from 1, j > 1) of the body of a case of the
\* switch block that is block i of a module invocation
SubSequenceLabel(identifier, args, i, case, j) ==
    ModuleLabelOf(identifier \o "-" \o ToString(i - 1) \o "-"
                     \o (IF case.type = "else" THEN "else" ELSE IfExtraLabel(case.values)),
                  args)
       \o "-" \o ToString(j - 1)

\* the symbol a changeto command stands for under a parameter binding
SymbolOf(changeTo, binding) ==
    IF MapHas(binding, changeTo) THEN MapGet(binding, changeTo) ELSE changeTo

\* the state of a label is the constant state of a basic block: on every
\* letter it writes the symbol of the changeto command, or the letter read
\* when there is none, and moves as the move command says, or left when
\* there is none; when the block is the last to run and has no flow command
\* the next state is reject
LoweredBasicBlock(label, block, binding, isLast) ==
    /\ label \in DOMAIN turingMachine.states
    /\ turingMachine.states[label].kind = "constant"
    /\ DOMAIN turingMachine.states[label].trans = Letters(program)
    /\ \A l \in Letters(program) :
          /\ turingMachine.states[label].trans[l].letter =
                IF block.changeTo = Undefined THEN l ELSE SymbolOf(block.changeTo, binding)
          /\ turingMachine.states[label].trans[l].direction =
                IF block.move = Undefined THEN LEFT ELSE block.move
          /\ (isLast /\ block.flow.type = "none") =>
                turingMachine.states[label].trans[l].nextState = REJECT

\* the basic blocks that are blocks of a module invocation
LoweredModuleBlocks(identifier, args, isEntry) ==
    LET module == ModuleOf(program, identifier)
    IN \A i \in 1..Len(module.blocks) :
          module.blocks[i].type = "basic" =>
             LoweredBasicBlock(BlockLabel(identifier, args, i), module.blocks[i],
                               BindingOf(module, args),
                               isEntry /\ i = Len(module.blocks))

\* the basic blocks after the first of the bodies of the if and else cases
\* of the switch blocks of a module invocation
LoweredCaseBlocks(identifier, args, isEntry) ==
    LET module == ModuleOf(program, identifier)
    IN \A i \in 1..Len(module.blocks) :
          module.blocks[i].type = "switch" =>
             \A k \in 1..Len(module.blocks[i].cases) :
                module.blocks[i].cases[k].type # "while" =>
                   \A j \in 2..Len(module.blocks[i].cases[k].blocks) :
                      module.blocks[i].cases[k].blocks[j].type = "basic" =>
                         LoweredBasicBlock(
                            SubSequenceLabel(identifier, args, i, module.blocks[i].cases[k], j),
                            module.blocks[i].cases[k].blocks[j],
                            BindingOf(module, args),
                            /\ isEntry
                            /\ i = Len(module.blocks)
                            /\ j = Len(module.blocks[i].cases[k].blocks))

\* the cases of no switch block of the program share a trigger value
DistinctTriggers ==
    \A n \in 1..Len(program.modules) :
       \A i \in 1..Len(program.modules[n].blocks) :
          program.modules[n].blocks[i].type = "switch" =>
             \A k1, k2 \in 1..Len(program.modules[n].blocks[i].cases) :
                k1 # k2 => Range(program.modules[n].blocks[i].cases[k1].values) \cap
                           Range(program.modules[n].blocks[i].cases[k2].values) = {}

\* C8: every basic block of a compiled module invocation, in the module body
\* or after the first block of an if or else body, is a constant state with
\* one transition for all letters: it writes the changeto symbol or keeps
\* the letter read, moves as the move command says or left, and goes to
\* reject when it has no flow command and no block follows it (the last
\* block of the entry module, or of a case body of its last block)
C8_BasicBlockLowering ==
    (phase # "parsed" /\ DistinctTriggers) =>
       \A n \in 1..Len(turingMachine.visited) :
          /\ LoweredModuleBlocks(turingMachine.visited[n][1], turingMachine.visited[n][2], n = 1)
          /\ LoweredCaseBlocks(turingMachine.visited[n][1], turingMachine.visited[n][2], n = 1)

\* the transition of a state on a letter is the one the first block of a
\* case gives: it writes the changeto symbol or keeps the letter, moves as
\* the move command says or left, and goes where the flow command says
CaseBound(label, case, l, binding) ==
    /\ turingMachine.states[label].trans[l].letter =
          IF FirstBlock(case).changeTo = Undefined THEN l
          ELSE SymbolOf(FirstBlock(case).changeTo, binding)
    /\ turingMachine.states[label].trans[l].direction =
          IF FirstBlock(case).move = Undefined THEN LEFT ELSE FirstBlock(case).move
    /\ (case.type # "while" /\ FirstBlock(case).flow.type = "term") =>
          turingMachine.states[label].trans[l].nextState = FirstBlock(case).flow.state
    /\ (case.type # "while" /\ FirstBlock(case).flow.type = "goto") =>
          turingMachine.states[label].trans[l].nextState = GoToLabel(FirstBlock(case).flow)

\* the letters the if and while cases before case k claim under a binding
ClaimedBefore(block, k, binding) ==
    {SymbolOf(v, binding) :
        v \in UNION {Range(block.cases[j].values) :
                        j \in {i \in 1..(k - 1) : block.cases[i].type # "else"}}}

\* the state of a label is the variable state of a switch block: it has a
\* transition on every letter, the transition of each if and while case on
\* each of its trigger values, and the transition of an else case on the
\* letters no earlier case claims
LoweredSwitchBlock(label, block, binding) ==
    /\ label \in DOMAIN turingMachine.states
    /\ turingMachine.states[label].kind = "variable"
    /\ DOMAIN turingMachine.states[label].trans = Letters(program)
    /\ \A k \in 1..Len(block.cases) :
          IF block.cases[k].type = "else"
          THEN \A l \in Letters(program) \ ClaimedBefore(block, k, binding) :
                  CaseBound(label, block.cases[k], l, binding)
          ELSE \A v \in Range(block.cases[k].values) :
                  SymbolOf(v, binding) \in Letters(program) =>
                     CaseBound(label, block.cases[k], SymbolOf(v, binding), binding)

\* the switch blocks of a module invocation: those of the module body and
\* those of the bodies of the cases of a switch block of the module body
LoweredSwitchBlocks(identifier, args) ==
    LET module == ModuleOf(program, identifier)
    IN \A i \in 1..Len(module.blocks) :
          module.blocks[i].type = "switch" =>
             /\ LoweredSwitchBlock(BlockLabel(identifier, args, i), module.blocks[i],
                                   BindingOf(module, args))
             /\ \A k \in 1..Len(module.blocks[i].cases) :
                   module.blocks[i].cases[k].type # "while" =>
                      \A j \in 2..Len(module.blocks[i].cases[k].blocks) :
                         module.blocks[i].cases[k].blocks[j].type = "switch" =>
                            LoweredSwitchBlock(
                               SubSequenceLabel(identifier, args, i, module.blocks[i].cases[k], j),
                               module.blocks[i].cases[k].blocks[j],
                               BindingOf(module, args))

\* C9: every switch block of a compiled module invocation of a validated
\* program is a variable state with a transition on every letter of the
\* alphabet and on blank; each if and while case gives the transition on
\* each of its trigger values, a parameter standing for its argument, and an
\* else case gives the transition on the letters no earlier case claims
C9_SwitchBlockLowering ==
    (phase # "parsed" /\ Validated(program)) =>
       \A n \in 1..Len(turingMachine.visited) :
          LoweredSwitchBlocks(turingMachine.visited[n][1], turingMachine.visited[n][2])

\* the letters a while case claims and no later case claims
LettersOfWhile(block, k, binding) ==
    {SymbolOf(v, binding) : v \in Range(block.cases[k].values)}
    \ {SymbolOf(v, binding) :
          v \in UNION {Range(block.cases[j].values) :
                          j \in {i \in (k + 1)..Len(block.cases) : block.cases[i].type # "else"}}}

\* the transitions the while cases of a switch block give go back to the
\* state of the switch block
WhileLoops(label, block, binding) ==
    /\ label \in DOMAIN turingMachine.states
    /\ \A k \in 1..Len(block.cases) :
          block.cases[k].type = "while" =>
             \A l \in LettersOfWhile(block, k, binding) \cap Letters(program) :
                /\ turingMachine.states[label].trans[l].nextState = label
                /\ CaseBound(label, block.cases[k], l, binding)

RECURSIVE CountStates(_, _), CountCaseStates(_)
\* the number of blocks of a sequence of blocks that are lowered to a state
\* of their own, from block i on: every block of the sequence, and every
\* block after the first of the body of an if or else case
CountStates(blocks, i) ==
    IF i > Len(blocks) THEN 0
    ELSE 1 + (IF blocks[i].type = "switch" THEN CountCaseStates(blocks[i].cases) ELSE 0)
           + CountStates(blocks, i + 1)

CountCaseStates(cases) ==
    IF Len(cases) = 0 THEN 0
    ELSE (IF Head(cases).type = "while" THEN 0 ELSE CountStates(Head(cases).blocks, 2))
         + CountCaseStates(Tail(cases))

RECURSIVE CountStatesOver(_, _)
\* the states of the module invocations of a sequence of visits, from visit n on
CountStatesOver(visits, n) ==
    IF n > Len(visits) THEN 0
    ELSE CountStates(ModuleOf(program, visits[n][1]).blocks, 1) + CountStatesOver(visits, n + 1)

\* C10: in every switch block of a compiled module invocation, the
\* transition a while case gives on each of its trigger values has the
\* label of the state of the switch block itself as next state, and writes
\* and moves as the core block says; the machine has one state for each
\* block of a module body and each block after the first of an if or else
\* body, and none for a while case
C10_WhileSelfLoop ==
    phase # "parsed" =>
       /\ \A n \in 1..Len(turingMachine.visited) :
             LET identifier == turingMachine.visited[n][1]
                 args == turingMachine.visited[n][2]
                 module == ModuleOf(program, identifier)
             IN \A i \in 1..Len(module.blocks) :
                   module.blocks[i].type = "switch" =>
                      WhileLoops(BlockLabel(identifier, args, i), module.blocks[i],
                                 BindingOf(module, args))
       /\ Len(turingMachine.added) = CountStatesOver(turingMachine.visited, 1)

\* a switch block with two while cases and an else case was compiled to one
\* state that loops on the letters of the while cases
C10_Witness ==
    /\ phase = "converted"
    /\ Len(program.modules[1].blocks) = 1
    /\ program.modules[1].blocks[1].type = "switch"
    /\ Len(program.modules[1].blocks[1].cases) = 3
    /\ program.modules[1].blocks[1].cases[1].type = "while"
    /\ program.modules[1].blocks[1].cases[2].type = "while"
    /\ turingMachine.added = <<"main-0">>
    /\ turingMachine.states["main-0"].trans["a"].nextState = "main-0"
    /\ turingMachine.states["main-0"].trans["b"].nextState = "main-0"
    /\ turingMachine.states["main-0"].trans[Blank].nextState # "main-0"

\* C11: the labels of the states of a compiled machine are pairwise
\* different: no two blocks lowered in one convert() run, of the same or of
\* different module invocations or if/else sub-sequences, get the same label
C11_LabelsDistinct ==
    phase # "parsed" =>
       \A i, j \in 1..Len(turingMachine.added) :
          turingMachine.added[i] = turingMachine.added[j] => i = j

\* a module named "m-0-a" and the sub-sequence of the case `if a` of block 0
\* of module m share the counter of the base "m-0-a"; both were compiled
C11_Witness ==
    /\ phase = "converted"
    /\ program.modules[1].identifier = "m-0-a"
    /\ Len(program.modules) = 2
    /\ Len(program.modules[2].blocks[1].cases[1].blocks) = 2
    /\ turingMachine.added = <<"m-0-a-0", "m-0", "m-0-a-1">>
    /\ ~turingMachine.unfinished

RECURSIVE SwitchBlocksIn(_)
\* the switch blocks of a sequence of blocks, those inside the bodies of
\* if and else cases included
SwitchBlocksIn(blocks) ==
    UNION {IF blocks[i].type = "switch"
           THEN {blocks[i]}
                \cup UNION {IF blocks[i].cases[k].type = "while" THEN {}
                            ELSE SwitchBlocksIn(blocks[i].cases[k].blocks) :
                            k \in 1..Len(blocks[i].cases)}
           ELSE {} : i \in 1..Len(blocks)}

\* the values named by an if or while case of a switch block
NamedValues(block) ==
    {v \in UNION {Range(block.cases[k].values) :
                     k \in {j \in 1..Len(block.cases) : block.cases[j].type # "else"}} : TRUE}

HasElse(block) == \E k \in 1..Len(block.cases) : block.cases[k].type = "else"

\* the switch blocks of the program that have no else case and name no
\* parameter of their module, each with the letters no case of it names
UncoveredBlocks(p) ==
    {[block |-> b, uncovered |-> Letters(p) \ NamedValues(b)] :
        b \in UNION {{sb \in SwitchBlocksIn(p.modules[m].blocks) :
                         /\ ~HasElse(sb)
                         /\ NamedValues(sb) \cap Range(p.modules[m].params) = {}} :
                     m \in 1..Len(p.modules)}}

\* how a message names a value
NameOf(v) == IF v = Blank THEN "blank" ELSE "\"" \o v \o "\""

RECURSIVE Listings(_)
\* the comma separated lists that name every value of S once
Listings(S) ==
    IF S = {} THEN {""}
    ELSE UNION {{NameOf(x) \o (IF S = {x} THEN "" ELSE ", ") \o r : r \in Listings(S \ {x})} :
                   x \in S}

\* the messages that say that the values of S, and only these, have no case
CoverageMessages(S) ==
    {"The switch block doesn't have a case for the "
        \o (IF Cardinality(S) = 1 THEN "letter" ELSE "letters") \o ": " \o r \o "." :
        r \in Listings(S)}

\* every message about values without a case, parameters among the values
AllCoverageMessages(p) ==
    UNION {CoverageMessages(S) :
              S \in SUBSET (Letters(p) \cup UNION {Range(p.modules[m].params) :
                                                     m \in 1..Len(p.modules)}) \ {{}}}

\* C12: the validator that asks for an else case raises an error when a
\* switch block without an else case and without a parameter among its
\* trigger values leaves a letter of the alphabet or the blank without a
\* case, and a message about values without a case names exactly the
\* uncovered values of such a switch block, blank as blank and no parameter
C12_CoverageError ==
    phase = "validated" =>
       /\ (\E u \in UncoveredBlocks(program) : u.uncovered # {}) => validation.newer # Ok
       /\ validation.newer \in AllCoverageMessages(program) =>
             \E u \in UncoveredBlocks(program) :
                /\ u.uncovered # {}
                /\ validation.newer \in CoverageMessages(u.uncovered)

\* the switch block of a module m(x) leaves b without a case, and the
\* validator named b and not x
C12_Witness ==
    /\ phase = "validated"
    /\ Len(program.modules) = 2
    /\ program.modules[2].params = <<"x">>
    /\ validation.newer = "The switch block doesn't have a case for the letter: \"b\"."

\* the switch blocks of the program that name a parameter of their module
\* and have no else case
ParamBlocksWithoutElse(p) ==
    UNION {{sb \in SwitchBlocksIn(p.modules[m].blocks) :
               /\ ~HasElse(sb)
               /\ NamedValues(sb) \cap Range(p.modules[m].params) # {}} :
           m \in 1..Len(p.modules)}

\* the program with an else case added to every switch block of a module
\* body that has none
WithElse(p) ==
    [p EXCEPT !.modules =
        [m \in 1..Len(p.modules) |->
            [p.modules[m] EXCEPT !.blocks =
                [i \in 1..Len(p.modules[m].blocks) |->
                    IF p.modules[m].blocks[i].type = "switch" /\ ~HasElse(p.modules[m].blocks[i])
                    THEN SwitchBlock(p.modules[m].blocks[i].cases
                            \o <<ElseCase(<<BB(Undefined, Undefined, Termination(REJECT))>>)>>)
                    ELSE p.modules[m].blocks[i]]]]]

ElseCaseNeeded ==
    "If parametrised letters are used then the switch block must have an else case."

\* C13: the validator that asks for an else case accepts no program with a
\* switch block that names a parameter of its module and has no else case,
\* and when the missing else case is all that is wrong with the program
\* the error is the "must have an else case" message, whichever letters the
\* cases cover
C13_ElseRequired ==
    (phase = "validated" /\ ParamBlocksWithoutElse(program) # {}) =>
       /\ validation.newer # Ok
       /\ Validate2(WithElse(program)) = Ok => validation.newer = ElseCaseNeeded

\* the cases of the switch block of m(x) name x and cover a, b and blank,
\* there is no else case, and the validator asked for one
C13_Witness ==
    /\ phase = "validated"
    /\ Len(program.modules) = 2
    /\ program.modules[2].params = <<"x">>
    /\ ~HasElse(program.modules[2].blocks[1])
    /\ NamedValues(program.modules[2].blocks[1]) = {"x", "a", "b", Blank}
    /\ validation.newer = ElseCaseNeeded

\* the trigger values of the if and while cases of a switch block, in order
ValuesInOrder(block) ==
    LET pick[k \in 0..Len(block.cases)] ==
           IF k = 0 THEN <<>>
           ELSE pick[k - 1] \o (IF block.cases[k].type = "else" THEN <<>>
                                ELSE block.cases[k].values)
    IN pick[Len(block.cases)]

\* a letter of the alphabet or the blank is named twice by the if and while
\* cases of the switch block, in one case or in two
CoveredTwice(p, block) ==
    \E i, j \in 1..Len(ValuesInOrder(block)) :
       /\ i # j
       /\ ValuesInOrder(block)[i] = ValuesInOrder(block)[j]
       /\ ValuesInOrder(block)[i] \in Letters(p)

\* C14: the validator that asks for an else case rejects every program with
\* a switch block in which a letter of the alphabet or the blank is covered
\* more than once
C14_NoDuplicateCoverage ==
    phase = "validated" =>
       ((\E m \in 1..Len(program.modules) :
            \E sb \in SwitchBlocksIn(program.modules[m].blocks) : CoveredTwice(program, sb))
        => validation.newer # Ok)

RECURSIVE ChangeTosIn(_)
\* the targets of the changeto commands of a sequence of blocks, those in
\* the bodies of the cases of its switch blocks included
ChangeTosIn(blocks) ==
    UNION {IF blocks[i].type = "switch"
           THEN UNION {ChangeTosIn(blocks[i].cases[k].blocks) :
                          k \in 1..Len(blocks[i].cases)}
           ELSE {blocks[i].changeTo} \ {Undefined} : i \in 1..Len(blocks)}

\* the changeto targets of module m that are neither blank, nor a letter of
\* the alphabet, nor a parameter of the module
BadTargets(p, m) ==
    ChangeTosIn(p.modules[m].blocks) \ (Letters(p) \cup Range(p.modules[m].params))

\* the values named by the cases of the switch blocks of the program
AllNamedValues(p) ==
    UNION {UNION {NamedValues(sb) : sb \in SwitchBlocksIn(p.modules[m].blocks)} :
              m \in 1..Len(p.modules)}

NotInAlphabet(v) == "The letter \"" \o v \o "\" is not part of the alphabet."

\* C15: the validator rejects a program with a changeto command whose
\* target is neither blank, nor a letter of the alphabet, nor a parameter of
\* the module of the command, and raises no error about the target of a
\* changeto command that is one of these
C15_ChangeToTargets ==
    phase = "validated" =>
       /\ (\E m \in 1..Len(program.modules) : BadTargets(program, m) # {})
             => validation.newer # Ok
       /\ \A m \in 1..Len(program.modules) :
             \A v \in ChangeTosIn(program.modules[m].blocks) \ {Blank} :
                (v \notin BadTargets(program, m) /\ v \notin AllNamedValues(program)
                 /\ \A n \in 1..Len(program.modules) : v \notin BadTargets(program, n))
                => validation.newer # NotInAlphabet(v)

\* the goto commands of the program
AllGoTos(p) == UNION {GoTosIn(p.modules[m].blocks) : m \in 1..Len(p.modules)}

\* the modules of the program with the identifier
Declared(p, identifier) ==
    {m \in 1..Len(p.modules) : p.modules[m].identifier = identifier}

\* the goto names no module of the program
NoTarget(p, g) == Declared(p, g.identifier) = {}

\* the goto names a module and gives it another number of arguments than
\* the module has parameters
WrongCount(p, g) ==
    \E m \in Declared(p, g.identifier) : Len(p.modules[m].params) # Len(g.args)

UndefinedModule(identifier) == "Undefined module \"" \o identifier \o "\"."

ExpectedArguments(n) ==
    "Expected " \o ToString(n) \o (IF n = 1 THEN " argument." ELSE " arguments.")

\* the errors about a goto command a program can raise
GoToErrors(p) ==
    {UndefinedModule(g.identifier) : g \in AllGoTos(p)}
    \cup {ExpectedArguments(Len(p.modules[m].params)) : m \in 1..Len(p.modules)}

\* C16: the validator rejects a program with a goto command that names no
\* module of the program or gives the module another number of arguments
\* than it has parameters, and raises an undefined-module or argument-count
\* error only for such a goto command; where in the program the module is
\* declared makes no difference
C16_GoToTargets ==
    phase = "validated" =>
       /\ (\E g \in AllGoTos(program) : NoTarget(program, g) \/ WrongCount(program, g))
             => validation.newer # Ok
       /\ validation.newer \in GoToErrors(program) =>
             \E g \in AllGoTos(program) :
                \/ NoTarget(program, g) /\ validation.newer = UndefinedModule(g.identifier)
                \/ /\ WrongCount(program, g)
                   /\ \E m \in Declared(program, g.identifier) :
                         validation.newer = ExpectedArguments(Len(program.modules[m].params))
       /\ (validation.newer = Ok /\ AllGoTos(program) # {}) =>
             \A g \in AllGoTos(program) : ~NoTarget(program, g) /\ ~WrongCount(program, g)

\* main goes to m, which is declared after main and goes to itself and to
\* main; the validator accepted the program
C16_Witness ==
    /\ phase = "validated"
    /\ validation.newer = Ok
    /\ Len(program.modules) = 2
    /\ program.modules[1].blocks[1].flow = GoTo("m", <<"a">>)
    /\ program.modules[2].identifier = "m"
    /\ program.modules[2].blocks[1].flow = GoTo("main", <<>>)

\* ------------------------------------------------------------------------
\* A CodeParser on its own: new CodeParser(code), then parse()
\* ------------------------------------------------------------------------

AlphabetLine == Line(0, <<"alphabet", "=", "[", "a", ",", "b", "]">>)

ModuleLine(name) == Line(0, <<"module", name, "(", ")", ":">>)

Header == <<AlphabetLine, ModuleLine("main")>>

\* the widths a line is given
Widths == {0, 2, 4, 6, 8}

\* the header lines of the cases
CaseHeaders == {<<"if", "a", ":">>, <<"while", "a", ":">>, <<"else", ":">>}

\* a block header followed by a command at each width, on the next line, on
\* the same line, and after a comment line
IndentSources ==
    {Header \o <<Line(w, <<"move", "right">>)>> : w \in {0, 4}}
    \cup {<<AlphabetLine, Line(0, <<"module", "main", "(", ")", ":", "move", "right">>)>>}
    \cup {Header \o <<Line(4, h), Line(w, <<"move", "right">>)>> :
              h \in CaseHeaders, w \in Widths}
    \cup {Header \o <<Line(4, h \o <<"move", "right">>)>> : h \in CaseHeaders}
    \cup {Header \o <<Line(4, h), Line(c, <<CommentMarker, "body">>),
                      Line(w, <<"move", "right">>)>> :
              h \in CaseHeaders, c \in {0, 8}, w \in {4, 8}}

\* the command lines of the bodies
CommandLines == {<<"changeto", "b">>, <<"move", "right">>, <<"accept">>}

\* the bodies of up to MaxBodyLines command lines at one width
CommandBodies(w) ==
    UNION {{[i \in 1..n |-> Line(w, f[i])] : f \in [1..n -> CommandLines]} :
               n \in 1..MaxBodyLines}

\* the command lines of the bodies of modules
BlockCommands == CommandLines \cup {<<"goto", "main", "(", ")">>}

\* module bodies of up to MaxBodyLines command lines at one width
BlockSources ==
    UNION {{Header \o [i \in 1..n |-> Line(4, f[i])] : f \in [1..n -> BlockCommands]} :
               n \in 1..MaxBodyLines}

\* what follows the body of a while case: nothing, or another case
AfterWhile == {<<>>, <<Line(4, <<"else", ":">>), Line(8, <<"reject">>)>>}

\* a while case with each body
WhileSources ==
    {Header \o <<Line(4, <<"while", "a", ":">>)>> \o body \o rest :
         body \in CommandBodies(8), rest \in AfterWhile}

\* what follows a case at its level: nothing, a command, a word that
\* starts no case, or another case
AfterCase ==
    {<<>>} \cup {<<Line(4, t)>> : t \in BlockCommands \cup {<<"when", "x", ":">>}}
    \cup {<<Line(4, <<"if", "b", ":">>), Line(8, <<"accept">>)>>,
          <<Line(4, <<"else", ":">>), Line(8, <<"reject">>)>>}

\* a case with a body of one command and what follows it; a switch block
\* after a basic block; a switch block in the body of an if case, followed
\* at its level or at the level of the if case
CaseSources ==
    {Header \o <<Line(4, h), Line(8, <<"move", "right">>)>> \o rest :
         h \in CaseHeaders, rest \in AfterCase}
    \cup {Header \o <<Line(4, <<"move", "right">>), Line(4, h), Line(8, <<"move", "right">>)>> :
              h \in CaseHeaders}
    \cup {Header \o <<Line(4, <<"if", "a", ":">>), Line(8, <<"move", "right">>),
                      Line(8, <<"if", "b", ":">>), Line(12, <<"accept">>), Line(w, t)>> :
              w \in {4, 8}, t \in {<<"move", "right">>, <<"else", ":", "reject">>, <<"halt">>}}
    \cup {Header \o <<Line(4, <<"if", "a", ":">>), Line(8, <<"move", "right">>),
                      Line(8, <<"if", "b", ":">>), Line(12, <<"accept">>),
                      Line(w, <<"else", ":">>), Line(w + 4, <<"reject">>)>> : w \in {4, 8}}

\* the texts of the comment lines
CommentTexts == {<<>>, <<"the", "end">>, <<"end", CommentMarker>>}

BodyLines == <<Line(4, <<"move", "right">>), Line(4, <<"accept">>)>>

\* comment lines after the end of a program, before its first line, in
\* the middle of a module, and alone
CommentSources ==
    {Header \o BodyLines \o <<Line(w, <<CommentMarker>> \o t)>> :
         w \in {0, 4, 8}, t \in CommentTexts}
    \cup {<<Line(0, <<CommentMarker>> \o t)>> \o Header \o BodyLines : t \in CommentTexts}
    \cup {Header \o <<BodyLines[1], Line(w, <<CommentMarker>> \o t), BodyLines[2]>> :
              w \in {0, 4, 8}, t \in CommentTexts}
    \cup {<<Line(0, <<CommentMarker>> \o t)>> : t \in CommentTexts}
    \cup {<<AlphabetLine, Line(0, <<CommentMarker>> \o t)>> : t \in CommentTexts}
    \cup {Header \o BodyLines}

\* the programs of the tests of the parser
TestSources ==
    {<<>>,
     <<Line(0, <<"module", "main", "(", ")", ":">>)>>,
     <<Line(0, <<"alphabet", "=", "[", ".", "]">>)>>,
     <<Line(0, <<"alphabet", "=", "[", "ab", "]">>)>>,
     <<Line(0, <<"alphabet", "=", "[", "a", "b", "c", "]">>)>>,
     <<AlphabetLine, Line(0, <<"module", "main", "(", ")">>)>>,
     Header,
     Header \o <<Line(4, <<"move", "up">>)>>,
     Header \o <<Line(4, <<"stop">>)>>,
     Header \o <<Line(4, <<"if", "a", ":">>), Line(8, <<"move", "left">>),
                 Line(4, <<"when", "x", ":">>), Line(8, <<"move", "right">>)>>,
     Header \o <<Line(4, <<"if", "a", ":">>), Line(8, <<"changeto", "blank">>),
                 Line(12, <<"move", "left">>)>>,
     Header \o <<Line(4, <<"if", "a", ":">>), Line(8, <<"changeto", "blank">>),
                 Line(6, <<"move", "left">>)>>,
     Header \o <<Line(4, <<"if", ":">>)>>,
     <<AlphabetLine, ModuleLine("block1"), Line(4, <<"move", "right">>),
       Line(4, <<"changeto", "blank">>), Line(4, <<"goto", "block2", "(", ")">>),
       ModuleLine("block2"), Line(4, <<"while", "0", ":">>), Line(8, <<"move", "left">>),
       Line(4, <<"if", "1", ",", "blank", ":">>), Line(8, <<"changeto", "a">>),
       Line(8, <<"accept">>)>>}

Sources == IndentSources \cup WhileSources \cup CommentSources \cup TestSources
           \cup BlockSources \cup CaseSources

\* new CodeParser(code); no program is validated, compiled or run
InitParse ==
    /\ source \in Sources
    /\ parser = NewParser
    /\ program = Program(AB, <<Module("main", <<>>, <<BB("b", Undefined, NoFlow)>>)>>)
    /\ validation = NotValidated
    /\ phase = "unparsed"
    /\ turingMachine = [initialState |-> Undefined, states |-> EmptyFn, added |-> <<>>,
                        visited |-> <<>>, unfinished |-> FALSE]
    /\ value = <<>>
    /\ constructorError = Ok
    /\ valueMap = EmptyFn
    /\ currentIndex = 0
    /\ currentBlocksStack = <<>>
    /\ currentBlockIndexStack = <<>>
    /\ argumentMapStack = <<>>
    /\ topLevelModuleStack = <<>>
    /\ terminationStatus = Undefined
    /\ calls = 0
    /\ returned = Undefined
    /\ thrown = FALSE
    /\ executed = NoStep
    /\ tmState = Undefined
    /\ tmValueMap = EmptyFn
    /\ tmIndex = 0
    /\ tmSteps = 0
    /\ tmStuck = FALSE
    /\ tmExecuted = NoStep

\* parse(): it returns the tree, throws a CodeError, or never leaves a loop
ParseSource ==
    /\ phase = "unparsed"
    /\ parser' = Parse(source)
    /\ phase' = IF parser'.error = Ok THEN "parseReturned"
                ELSE IF parser'.error = Diverges THEN "parseRunning"
                ELSE "parseThrew"
    /\ UNCHANGED <<source, program, validation, turingMachine, value, constructorError>>
    /\ UNCHANGED executorVars
    /\ UNCHANGED machineVars

NextParse == ParseSource

SpecParse == InitParse /\ [][NextParse]_vars /\ WF_vars(NextParse)

\* the positions of the tape that store a symbol
StoredPositions == DOMAIN valueMap

\* where move(d) takes the head from the current state
HeadAfter(d) ==
    IF d = LEFT THEN currentIndex - 1
    ELSE IF d = START
    THEN IF StoredPositions = {} THEN 0
         ELSE CHOOSE i \in StoredPositions : \A j \in StoredPositions : i <= j
    ELSE IF d = END
    THEN IF StoredPositions = {} THEN 0
         ELSE CHOOSE i \in StoredPositions : \A j \in StoredPositions : i >= j
    ELSE currentIndex + 1

MoveCalled == calls' = calls + 1 /\ executed'.status = "move"

\* C17: a call of move leaves the stored symbols as they are and takes the
\* head one to the left for left, to the least stored position for start,
\* to the greatest stored position for end, to 0 for start and end on a tape
\* that stores nothing, and one to the right for right and for a direction
\* that is none of the four
C17_TapeMove ==
    [][MoveCalled => /\ valueMap' = valueMap
                     /\ currentIndex' = HeadAfter(executed'.direction)]_vars

\* the head was taken to the start of a tape whose only stored symbol is
\* at 1, not at 0
C17_Witness ==
    /\ phase = "tape"
    /\ executed.status = "move"
    /\ executed.direction = START
    /\ DOMAIN valueMap = {1}
    /\ currentIndex = 1
    /\ calls = 3

\* the token at line l, place t is part of a comment
InComment(src, l, t) == \E k \in 1..t : src[l].tokens[k] = CommentMarker

\* the places <<line, token>> of the tokens of the code that are no comment
CodeTokens(src) ==
    UNION {{<<l, t>> : t \in {k \in 1..Len(src[l].tokens) : ~InComment(src, l, k)}} :
               l \in 1..Len(src)}

Before(a, b) == a[1] < b[1] \/ (a[1] = b[1] /\ a[2] < b[2])

\* the ':' tokens that end the header of a module or of a case
HeaderColons(src) ==
    {pos \in CodeTokens(src) :
         /\ src[pos[1]].tokens[pos[2]] = ":"
         /\ src[pos[1]].tokens[1] \in {"module", "if", "while", "else"}}

\* the tokens of the code after the place pos
TokensAfter(src, pos) == {a \in CodeTokens(src) : Before(pos, a)}

\* the token of the code that follows the place pos
TokenAfter(src, pos) ==
    CHOOSE a \in TokensAfter(src, pos) : \A b \in TokensAfter(src, pos) : a = b \/ Before(a, b)

\* the token after the header colon h is on a later line, further in than
\* the header: one new level of indentation
Deeper(src, h) ==
    /\ TokenAfter(src, h)[1] > h[1]
    /\ src[TokenAfter(src, h)[1]].indent > src[h[1]].indent

\* the token after the header colon h is on the line of the header or on a
\* line as far in as the header
SameLevel(src, h) ==
    \/ TokenAfter(src, h)[1] = h[1]
    \/ src[TokenAfter(src, h)[1]].indent = src[h[1]].indent

\* the token after the header colon h is on a line less far in than the
\* header
Shallower(src, h) ==
    /\ TokenAfter(src, h)[1] > h[1]
    /\ src[TokenAfter(src, h)[1]].indent < src[h[1]].indent

\* the header colons whose next token is the one the parser threw at
ThrewAfter ==
    {h \in HeaderColons(source) :
         /\ phase = "parseThrew"
         /\ TokensAfter(source, h) # {}
         /\ TokenAfter(source, h) = <<parser.line, parser.tok>>}

\* C18 as stated: whenever the token after a block header ':' is not one
\* new level of indentation deeper than the header, the parser raises
\* "Expected indentation."
C18_AlwaysExpectedIndentation ==
    \A h \in ThrewAfter :
        ~Deeper(source, h) => parser.error = "Expected indentation."

\* C18 amended: the parser raises "Expected indentation." exactly when the
\* token after a block header ':' is at the level of the header (on its line
\* or on a later line as far in); at a token less far in it raises
\* "Unexpected de-indentation." or "Invalid indentation."; and a parse that
\* returns found one new level after every block header
C18_ExpectedIndentation ==
    /\ \A h \in ThrewAfter :
           /\ SameLevel(source, h) <=> parser.error = "Expected indentation."
           /\ Shallower(source, h) =>
                  parser.error \in {"Unexpected de-indentation.", "Invalid indentation."}
    /\ phase = "parseThrew" /\ parser.error = "Expected indentation."
           => \E h \in ThrewAfter : SameLevel(source, h)
    /\ phase = "parseReturned" =>
           \A h \in HeaderColons(source) :
               TokensAfter(source, h) # {} /\ Deeper(source, h)

\* "Expected indentation." was raised at the command of a while case that
\* follows the header, after a comment line, as far in as the header
C18_Witness ==
    /\ phase = "parseThrew"
    /\ parser.error = "Expected indentation."
    /\ Len(source) = 5
    /\ source[3].tokens[1] = "while"
    /\ source[4].tokens[1] = CommentMarker
    /\ source[5].indent = source[3].indent
    /\ parser.line = 5

\* the words a case starts with
CaseWords == {"if", "while", "else"}

\* the code has no comment
NoComments(src) == \A i \in 1..Len(src) : CommentMarker \notin Range(src[i].tokens)

\* line l comes after a case at its indentation level: an earlier line of
\* the same width starts a case and the lines between them are deeper
FollowsCase(src, l) ==
    \E h \in 1..(l - 1) :
       /\ src[h].indent = src[l].indent
       /\ src[h].tokens[1] \in CaseWords
       /\ \A j \in (h + 1)..(l - 1) : src[j].indent > src[l].indent

\* the lines that come after a case at its level and do not start a case
StrayLines(src) ==
    {l \in 1..Len(src) : FollowsCase(src, l) /\ src[l].tokens[1] \notin CaseWords}

\* the lines that hold the header of a while case
WhileHeaders(src) == {l \in 1..Len(src) : src[l].tokens[1] = "while"}

\* the lines of the body of the case whose header is at line l: the lines
\* after it up to the first one that is no further in than the header
BodyLinesOf(src, l) ==
    {k \in (l + 1)..Len(src) :
         \A j \in (l + 1)..k : src[j].indent > src[l].indent
                               \/ src[j].tokens[1] = CommentMarker}

\* the commands of that body in order: the first token of each line that is
\* no comment
RECURSIVE CommandsFrom(_, _, _)
CommandsFrom(src, k, lines) ==
    IF k \notin lines THEN <<>>
    ELSE IF src[k].tokens[1] = CommentMarker THEN CommandsFrom(src, k + 1, lines)
    ELSE <<src[k].tokens[1]>> \o CommandsFrom(src, k + 1, lines)

BodyCommands(src, l) == CommandsFrom(src, l + 1, BodyLinesOf(src, l))

\* the while cases of the code that have a body
WhileCasesWithBody == {l \in WhileHeaders(source) : BodyCommands(source, l) # <<>>}

\* C19: the parser accepts the body of a while case only when it is exactly
\* one changeto command followed by exactly one move command; a body that
\* lacks either command, has them in the other order or holds anything more
\* is not parsed
C19_ChangeToThenMove ==
    phase = "parseReturned" =>
        \A l \in WhileCasesWithBody : BodyCommands(source, l) = <<"changeto", "move">>

\* the last line of the code is a comment line
EndsInComment(src) == Len(src) > 0 /\ src[Len(src)].tokens[1] = CommentMarker

RECURSIVE WithoutTrailingComments(_)
\* the code without the comment lines at its end
WithoutTrailingComments(src) ==
    IF EndsInComment(src) THEN WithoutTrailingComments(Front(src)) ELSE src

\* C20: parse() returns or throws on every code, and on a code that ends
\* in comment lines it ends as it does on the code without them: with the
\* same tree, or with the same error
C20_ParseTerminates ==
    phase # "unparsed" =>
        /\ phase \in {"parseReturned", "parseThrew"}
        /\ EndsInComment(source) =>
               /\ parser.error = Parse(WithoutTrailingComments(source)).error
               /\ parser.error = Ok =>
                      parser.result = Parse(WithoutTrailingComments(source)).result

\* the transitions of the state of a label on the given letters all have
\* the given next state
GoesTo(label, letters, nextState) ==
    /\ label \in DOMAIN turingMachine.states
    /\ \A l \in letters \cap DOMAIN turingMachine.states[label].trans :
          turingMachine.states[label].trans[l].nextState = nextState

\* the next state of a block that falls out of block i of a module
\* invocation: the label of block i + 1, or reject after the last block
AfterBlock(identifier, args, i) ==
    IF i < Len(ModuleOf(program, identifier).blocks)
    THEN BlockLabel(identifier, args, i + 1) ELSE REJECT

\* a block follows block i in the module, or the module is the entry module
\* and no sequence of blocks encloses its body
FollowerKnown(identifier, i, isEntry) ==
    i < Len(ModuleOf(program, identifier).blocks) \/ isEntry

\* the basic blocks without a flow command of the body of a module invocation
FallThroughOfModuleBlocks(identifier, args, isEntry) ==
    LET module == ModuleOf(program, identifier)
    IN \A i \in 1..Len(module.blocks) :
          (/\ module.blocks[i].type = "basic"
           /\ module.blocks[i].flow.type = "none"
           /\ FollowerKnown(identifier, i, isEntry)) =>
             GoesTo(BlockLabel(identifier, args, i), Letters(program),
                    AfterBlock(identifier, args, i))

\* the if and else cases of one block without a flow command
FallThroughOfSingleCases(identifier, args, isEntry) ==
    LET module == ModuleOf(program, identifier)
    IN \A i \in 1..Len(module.blocks) :
          module.blocks[i].type = "switch" =>
             \A k \in 1..Len(module.blocks[i].cases) :
                (/\ module.blocks[i].cases[k].type # "while"
                 /\ Len(module.blocks[i].cases[k].blocks) = 1
                 /\ FirstBlock(module.blocks[i].cases[k]).flow.type = "none"
                 /\ FollowerKnown(identifier, i, isEntry)) =>
                   GoesTo(BlockLabel(identifier, args, i),
                          LettersOfCase(program, module.blocks[i], k, BindingOf(module, args)),
                          AfterBlock(identifier, args, i))

\* the basic blocks without a flow command after the first block of the body
\* of an if or else case: a block that is not the last goes to the next
\* block of the body, the last one to what follows the switch block
FallThroughOfCaseBlocks(identifier, args, isEntry) ==
    LET module == ModuleOf(program, identifier)
    IN \A i \in 1..Len(module.blocks) :
          module.blocks[i].type = "switch" =>
             \A k \in 1..Len(module.blocks[i].cases) :
                module.blocks[i].cases[k].type # "while" =>
                   \A j \in 2..Len(module.blocks[i].cases[k].blocks) :
                      (/\ module.blocks[i].cases[k].blocks[j].type = "basic"
                       /\ module.blocks[i].cases[k].blocks[j].flow.type = "none") =>
                         IF j < Len(module.blocks[i].cases[k].blocks)
                         THEN GoesTo(SubSequenceLabel(identifier, args, i, module.blocks[i].cases[k], j),
                                     Letters(program),
                                     SubSequenceLabel(identifier, args, i, module.blocks[i].cases[k], j + 1))
                         ELSE FollowerKnown(identifier, i, isEntry) =>
                                 GoesTo(SubSequenceLabel(identifier, args, i, module.blocks[i].cases[k], j),
                                        Letters(program),
                                        AfterBlock(identifier, args, i))

\* C21: every lowered block without a flow command (a basic block of a
\* module body or of an if or else body, or the only block of an if or else
\* case) has as next state the label of the state of the block that follows
\* it in the innermost enclosing sequence of blocks in which it is not the
\* last, and reject when no enclosing sequence has a following block; so
\* also for the last block of an if or else body and in modules with
\* parameters
C21_FallThroughLabels ==
    (phase # "parsed" /\ DistinctTriggers) =>
       \A n \in 1..Len(turingMachine.visited) :
          /\ FallThroughOfModuleBlocks(turingMachine.visited[n][1], turingMachine.visited[n][2], n = 1)
          /\ FallThroughOfSingleCases(turingMachine.visited[n][1], turingMachine.visited[n][2], n = 1)
          /\ FallThroughOfCaseBlocks(turingMachine.visited[n][1], turingMachine.visited[n][2], n = 1)

\* the case of the current switch block that the next execute() selects:
\* the first case that applies to the letter under the head
SelectedCase ==
    CurrentBlock(CurrentFrames).cases[
        MinOf(ApplyingCases(CurrentBlock(CurrentFrames), TapeGet(valueMap, currentIndex),
                            Last(argumentMapStack)))]

\* the next step is an execute() that selects a case of one of the types
ExecutesCase(types) ==
    /\ ExecuteReturned
    /\ terminationStatus = Undefined
    /\ HasCurrentBlock(CurrentFrames)
    /\ CurrentBlock(CurrentFrames).type = "switch"
    /\ ApplyingCases(CurrentBlock(CurrentFrames), TapeGet(valueMap, currentIndex),
                     Last(argumentMapStack)) # {}
    /\ SelectedCase.type \in types

\* the cells of the tape an executor can reach within the bounds
ReachableCells == (0 - MaxSteps)..(MaxTapeLen + MaxSteps)

\* the step wrote and moved as a block says: the cell under the head holds
\* the symbol of the changeto command, or the letter it held when there is
\* none, no other cell changed, and the head moved one cell in the direction
\* of the move command, or to the left when there is none
WroteAndMoved(block) ==
    /\ block.changeTo \in Letters(program) \cup {Undefined} =>
          TapeGet(valueMap', currentIndex) =
             IF block.changeTo = Undefined THEN TapeGet(valueMap, currentIndex)
             ELSE block.changeTo
    /\ \A i \in ReachableCells \ {currentIndex} : TapeGet(valueMap', i) = TapeGet(valueMap, i)
    /\ block.move = RIGHT => currentIndex' = currentIndex + 1
    /\ block.move \in {LEFT, Undefined} => currentIndex' = currentIndex - 1

\* the step added a frame that is not the frame of a module
PushedCaseFrame ==
    /\ Len(topLevelModuleStack') > Len(topLevelModuleStack)
    /\ \E k \in (Len(topLevelModuleStack) + 1)..Len(topLevelModuleStack') :
          ~topLevelModuleStack'[k]

\* C22: an execute() that selects a while case writes and moves as the core
\* block of the case says and leaves the four frame stacks, every block
\* index and the termination status as they were, so the same switch block
\* is the current block of the next call; a frame of a case is pushed only
\* when the selected case is an if or an else case
C22_WhileKeepsFrames ==
    [][/\ ExecutesCase({"while"}) =>
             /\ WroteAndMoved(FirstBlock(SelectedCase))
             /\ UNCHANGED <<currentBlocksStack, currentBlockIndexStack, argumentMapStack,
                            topLevelModuleStack, terminationStatus>>
             /\ CurrentBlock(CurrentFrames)' = CurrentBlock(CurrentFrames)
       /\ (ExecuteReturned /\ PushedCaseFrame) => ExecutesCase({"if", "else"})]_vars

\* two calls of execute() selected the while case of the first block of the
\* entry module and moved the head to the right, and the switch block is
\* still the current block of the one frame
C22_Witness ==
    /\ phase = "constructed"
    /\ calls = 2
    /\ terminationStatus = Undefined
    /\ currentBlockIndexStack = <<0>>
    /\ topLevelModuleStack = <<TRUE>>
    /\ CurrentBlock(CurrentFrames).type = "switch"
    /\ CurrentBlock(CurrentFrames).cases[1].type = "while"
    /\ executed.direction = RIGHT
    /\ currentIndex = 2

\* the violations a check finds: none when it gives "ok", else its message
Found(message) == IF message = Ok THEN <<>> ELSE <<message>>

RECURSIVE Concat(_)
\* the sequences of a sequence, one after the other
Concat(ss) == IF Len(ss) = 0 THEN <<>> ELSE Head(ss) \o Concat(Tail(ss))

\* the violations of the header of a case that visitSwitchBlock looks for:
\* an else case that is not the last, trigger values that are neither blank,
\* nor a parameter, nor a letter of the alphabet
CaseValueViolations(p, params, block, k) ==
    (IF block.cases[k].type = "else" /\ k # Len(block.cases)
     THEN <<"A non-final case cannot be an else block">> ELSE <<>>)
    \o [i \in 1..Len(UnknownValues(p, params, block.cases[k])) |->
          "The letter " \o Quoted(UnknownValues(p, params, block.cases[k])[i])
          \o " is not part of the alphabet."]

\* the violations of the shape of a case that visitIf, visitElse and
\* visitWhile look for
CaseShapeViolations(case) ==
    (IF case.type \in {"if", "while"} /\ Len(case.values) = 0
     THEN <<"A" \o (IF case.type = "if" THEN "n if" ELSE " while")
            \o " case must apply to at least one letter.">>
     ELSE <<>>)
    \o (IF case.type # "while" /\ case.blocks[1].type # "basic"
        THEN <<"The first block within an " \o case.type \o " case must be a basic block.">>
        ELSE <<>>)

\* the violations of the rules on a module as a whole
ModuleViolations(p, n) ==
    (IF n = 1 /\ Len(p.modules[n].params) # 0
     THEN <<"The first module cannot have parameters.">> ELSE <<>>)
    \o [i \in 1..Len(SelectSeq(p.modules[n].params, LAMBDA l : l \in Range(p.alphabet))) |->
          "The letter "
          \o Quoted(SelectSeq(p.modules[n].params, LAMBDA l : l \in Range(p.alphabet))[i])
          \o " is both in the alphabet and a module parameter."]

\* the module is declared under a name an earlier module has
DuplicateViolations(p, n) ==
    IF n \in DuplicateModules(p)
    THEN <<"Duplicate module with name " \o Quoted(p.modules[n].identifier) \o ".">>
    ELSE <<>>

RECURSIVE Violations(_, _, _, _, _)
\* every violation of a rule of the validator in a node of the syntax tree,
\* in one of two orders. In tree order a violation of a node comes before
\* those of the nodes after it in the source: the duplicate name of a module
\* with the module, the trigger values of a case with the case. In visit
\* order the duplicate names of all modules come before the first module,
\* and the trigger values of all cases of a switch block before the first
\* case. The missing coverage of a switch block comes after its cases.
Violations(p, params, kind, node, order) ==
    CASE kind = "program" ->
            Found(IF Len(p.alphabet) = 0 THEN "The alphabet must have at least one letter." ELSE Ok)
            \o (IF order = "visit"
                THEN Concat([n \in 1..Len(p.modules) |-> DuplicateViolations(p, n)])
                ELSE <<>>)
            \o Found(IF Len(p.modules) = 0 THEN "A program should have at least one module." ELSE Ok)
            \o Concat([n \in 1..Len(p.modules) |->
                         (IF order = "tree" THEN DuplicateViolations(p, n) ELSE <<>>)
                         \o ModuleViolations(p, n)
                         \o Violations(p, p.modules[n].params, "blocks", p.modules[n].blocks, order)])
      [] kind = "blocks" ->
            Concat([i \in 1..Len(node) |-> Violations(p, params, "block", node[i], order)])
      [] kind = "block" /\ node.type = "basic" ->
            Found(IF node.changeTo # Undefined THEN ValidateChangeTo(p, node.changeTo) ELSE Ok)
            \o Found(IF node.flow.type = "goto" THEN ValidateGoTo2(p, node.flow) ELSE Ok)
      [] kind = "block" /\ node.type = "core" -> <<>>
      [] kind = "block" /\ node.type = "switch" ->
            (IF order = "visit"
             THEN Concat([k \in 1..Len(node.cases) |-> CaseValueViolations(p, params, node, k)])
             ELSE <<>>)
            \o Concat([k \in 1..Len(node.cases) |->
                         (IF order = "tree" THEN CaseValueViolations(p, params, node, k) ELSE <<>>)
                         \o CaseShapeViolations(node.cases[k])
                         \o Violations(p, params, "blocks", node.cases[k].blocks, order)])
            \o Found(ValidateCoverage2(p, params, node))

\* the first violation of a program in an order, or "ok"
FirstViolation(p, order) ==
    IF Len(Violations(p, <<>>, "program", p, order)) = 0 THEN Ok
    ELSE Violations(p, <<>>, "program", p, order)[1]

\* C23 as claimed: validate() raises the error of the violation that comes
\* first in tree order (the alphabet, then the modules in order, each with
\* its blocks, cases and commands in source order), and raises nothing when
\* there is no violation
C23_FirstInTreeOrder ==
    phase = "validated" => validation.newer = FirstViolation(program, "tree")

\* C23: validate() raises the error of the violation that comes first in
\* the order of its visit, and nothing when there is none: the alphabet,
\* then the duplicate names of all modules, then the modules in order; in a
\* switch block the else position and the trigger values of all its cases,
\* then the bodies of the cases in order, then the coverage of the block.
\* The error may be located after another violation in the source
C23_FirstInVisitOrder ==
    phase = "validated" => validation.newer = FirstViolation(program, "visit")

\* validate() raised the error of the module declared twice, the third
\* module, for a program whose first module has violations of its own (a
\* changeto to "c" in the body of the first case, the trigger value "d" of
\* the second case) that come before it in the source
C23_Witness ==
    /\ phase = "validated"
    /\ Len(Violations(program, <<>>, "program", program, "visit")) >= 3
    /\ FirstViolation(program, "tree") # FirstViolation(program, "visit")
    /\ validation.newer = "Duplicate module with name \"m\"."

\* the code is the header and a module body of command lines at one width
IsCommandBody(src) ==
    /\ Len(src) > Len(Header)
    /\ SubSeq(src, 1, Len(Header)) = Header
    /\ \A i \in (Len(Header) + 1)..Len(src) :
          src[i].indent = 4 /\ src[i].tokens \in BlockCommands

\* the flow command of a command line
FlowOf(tokens) ==
    IF tokens[1] = "goto" THEN GoTo(tokens[2], <<>>) ELSE Termination(tokens[1])

\* the block that starts at line i of the code, made of the changeto
\* command if line i is one, then the move command if the next line is
\* one, then the flow command if the next line is one; next is the line
\* after the block
GreedyBlockAt(src, i) ==
    LET hasChangeTo == src[i].tokens[1] = "changeto"
        i1 == IF hasChangeTo THEN i + 1 ELSE i
        hasMove == i1 <= Len(src) /\ src[i1].tokens[1] = "move"
        i2 == IF hasMove THEN i1 + 1 ELSE i1
        hasFlow == i2 <= Len(src) /\ src[i2].tokens[1] \in {"accept", "reject", "halt", "goto"}
    IN [block |-> BasicBlock(IF hasChangeTo THEN src[i].tokens[2] ELSE Undefined,
                             IF hasMove THEN src[i1].tokens[2] ELSE Undefined,
                             IF hasFlow THEN FlowOf(src[i2].tokens) ELSE NoFlow),
        next |-> IF hasFlow THEN i2 + 1 ELSE i2]

RECURSIVE GreedyBlocksFrom(_, _)
\* the blocks of the command lines from line i on, each block as long as
\* the order changeto, move, flow allows
GreedyBlocksFrom(src, i) ==
    IF i > Len(src) THEN <<>>
    ELSE <<GreedyBlockAt(src, i).block>> \o GreedyBlocksFrom(src, GreedyBlockAt(src, i).next)

\* C24: the commands of a module body at one indentation level are split
\* into basic blocks greedily: each block takes at most one changeto, then
\* at most one move, then at most one flow command, and a command that does
\* not fit this order starts the next block; parse() returns these blocks
C24_GreedyBlocks ==
    (phase # "unparsed" /\ IsCommandBody(source)) =>
       /\ phase = "parseReturned"
       /\ Len(parser.result.modules) = 1
       /\ parser.result.modules[1].blocks = GreedyBlocksFrom(source, Len(Header) + 1)

\* move, changeto, goto was parsed to two blocks: the move command alone,
\* then the changeto command with the goto command
C24_Witness ==
    /\ phase = "parseReturned"
    /\ source = Header \o <<Line(4, <<"move", "right">>), Line(4, <<"changeto", "b">>),
                             Line(4, <<"goto", "main", "(", ")">>)>>
    /\ parser.result.modules[1].blocks =
          <<BasicBlock(Undefined, RIGHT, NoFlow), BasicBlock("b", Undefined, GoTo("main", <<>>))>>

\* C25: for a validated program and a valid initial tape, every execute()
\* on a run that is not terminated finds a block to execute: there is a
\* frame on the stack, the index of the top frame is within its sequence of
\* blocks, and when the block is a switch block one of its cases applies to
\* the symbol under the head under the current argument map; no call ends
\* in a TypeError
C25_FindsBlock ==
    (phase = "constructed" /\ validation.newer = Ok) =>
       /\ ~thrown
       /\ terminationStatus = Undefined =>
             /\ Len(currentBlocksStack) > 0
             /\ Last(currentBlockIndexStack) < Len(Last(currentBlocksStack))
             /\ CurrentBlock(CurrentFrames).type = "switch" =>
                   ApplyingCases(CurrentBlock(CurrentFrames), TapeGet(valueMap, currentIndex),
                                 Last(argumentMapStack)) # {}

\* a label a transition may lead to: accept, reject, halt, or the label of
\* a state of the machine
KnownLabel(label) == label \in TerminationStates \cup DOMAIN turingMachine.states

\* C26: in the machine compiled from a validated program the initial state
\* and the next state of every transition are a reserved label (accept,
\* reject, halt) or the label of a state that was added to the machine
C26_NoDanglingLabels ==
    (phase \in {"converted", "constructed", "failed"} /\ Validated(program)
        /\ ~turingMachine.unfinished) =>
       /\ KnownLabel(turingMachine.initialState)
       /\ \A label \in DOMAIN turingMachine.states :
             \A l \in DOMAIN turingMachine.states[label].trans :
                KnownLabel(turingMachine.states[label].trans[l].nextState)

\* the frames when the block of the next execute() has run: those of the
\* stack, and the frame of the if or else case the block is the first of
FramesAtBlock == FindExecutionBlock(CurrentFrames, TapeGet(valueMap, currentIndex)).frames

\* the frames of a stack that have a block after their current block
FramesWithFollower(fr) ==
    {k \in 1..Len(fr.currentBlocksStack) :
        fr.currentBlockIndexStack[k] + 1 < Len(fr.currentBlocksStack[k])}

\* the number of module frames among the first k frames
ModuleFrames(fr, k) == Cardinality({j \in 1..k : fr.topLevelModuleStack[j]})

\* the next step is an execute() that runs a basic block without a flow
\* command
ExecutesFallThrough ==
    /\ ExecuteReturned
    /\ terminationStatus = Undefined
    /\ NextExecutionBlock.type = "basic"
    /\ NextExecutionBlock.flow.type = "none"

\* the step left the first k frames of a stack of frames, with their maps,
\* and moved frame k on to its next block
ResumedAt(fr, k) ==
    /\ currentBlocksStack' = SubSeq(fr.currentBlocksStack, 1, k)
    /\ currentBlockIndexStack' =
          [j \in 1..k |-> IF j = k THEN fr.currentBlockIndexStack[j] + 1
                          ELSE fr.currentBlockIndexStack[j]]
    /\ topLevelModuleStack' = SubSeq(fr.topLevelModuleStack, 1, k)
    /\ argumentMapStack' = SubSeq(fr.argumentMapStack, 1, ModuleFrames(fr, k))
    /\ terminationStatus' = Undefined

\* C27: an execute() of a block with a goto command pushes the frame of the
\* module gone to, at its first block, with one argument map, and leaves
\* every frame below as it was; an execute() of a block without a flow
\* command, as when the module gone to ends, pops the frames that have no
\* following block, each module frame with its argument map, and goes on at
\* the block after the current block of the nearest frame that has one; it
\* rejects only when no frame has a following block
C27_GoToAndReturn ==
    [][/\ ExecutesGoTo =>
             /\ currentBlocksStack' =
                   Append(FramesAtBlock.currentBlocksStack,
                          ModuleOf(program, NextExecutionBlock.flow.identifier).blocks)
             /\ currentBlockIndexStack' = Append(FramesAtBlock.currentBlockIndexStack, 0)
             /\ topLevelModuleStack' = Append(FramesAtBlock.topLevelModuleStack, TRUE)
             /\ Front(argumentMapStack') = argumentMapStack
             /\ SubSeq(currentBlocksStack', 1, Len(currentBlocksStack)) = currentBlocksStack
             /\ SubSeq(currentBlockIndexStack', 1, Len(currentBlockIndexStack))
                   = currentBlockIndexStack
             /\ terminationStatus' = Undefined
       /\ (ExecutesFallThrough /\ FramesWithFollower(FramesAtBlock) # {}) =>
             ResumedAt(FramesAtBlock, MaxOf(FramesWithFollower(FramesAtBlock)))
       /\ (ExecuteReturned /\ terminationStatus = Undefined /\ terminationStatus' = REJECT
             /\ NextExecutionBlock.flow # Termination(REJECT)) =>
             (ExecutesFallThrough /\ FramesWithFollower(FramesAtBlock) = {})]_vars

\* a module entered by a goto has ended by fallthrough: its frame and its
\* argument map were popped and the run goes on in the entry module at the
\* block after the block of the goto
C27_Witness ==
    /\ phase = "constructed"
    /\ calls >= 2
    /\ terminationStatus = Undefined
    /\ currentBlockIndexStack = <<1>>
    /\ topLevelModuleStack = <<TRUE>>
    /\ argumentMapStack = <<EmptyMap>>
    /\ program.modules[1].blocks[1].type = "basic"
    /\ program.modules[1].blocks[1].flow.type = "goto"
    /\ program.modules[1].blocks[1].flow.identifier # program.modules[1].identifier

\* C28: for a validated program started on a valid tape, after any number
\* of execute() calls every symbol stored on the tape is a letter of the
\* alphabet of the program: no blank, no parameter name and no other symbol
\* is stored as an entry of the tape
C28_TapeInAlphabet ==
    (phase = "constructed" /\ validation.newer = Ok) =>
       \A i \in DOMAIN valueMap : valueMap[i] \in Range(program.alphabet)

RECURSIVE SwitchOnlyLast(_)
\* a switch block of a sequence of blocks is its last block, and so in the
\* bodies of the if and else cases of its switch blocks
SwitchOnlyLast(blocks) ==
    \A i \in 1..Len(blocks) :
       blocks[i].type = "switch" =>
          /\ i = Len(blocks)
          /\ \A k \in 1..Len(blocks[i].cases) :
                blocks[i].cases[k].type # "while" => SwitchOnlyLast(blocks[i].cases[k].blocks)

\* C29: in every sequence of blocks of a tree parse() returns, a module
\* body or the body of an if or else case, a switch block is the last
\* block; code with a token that comes after a case at the level of the
\* case and is not if, while or else is not parsed to a tree: where the
\* code before that token parses, parse() throws "Unexpected start of case"
\* with the token
C29_SwitchBlockLast ==
    phase # "unparsed" =>
       /\ phase = "parseReturned" =>
             \A n \in 1..Len(parser.result.modules) :
                SwitchOnlyLast(parser.result.modules[n].blocks)
       /\ (NoComments(source) /\ StrayLines(source) # {}) =>
             /\ phase = "parseThrew"
             /\ Parse(SubSeq(source, 1, MinOf(StrayLines(source)) - 1)).error = Ok =>
                   parser.error = "Unexpected start of case: \""
                                     \o source[MinOf(StrayLines(source))].tokens[1] \o "\"."

\* a move command at the level of an if case, after the body of the case,
\* made parse() throw
C29_Witness ==
    /\ phase = "parseThrew"
    /\ parser.error = "Unexpected start of case: \"move\"."
    /\ Len(source) = 5
    /\ source[3].tokens[1] = "if"
    /\ source[5] = Line(4, <<"move", "right">>)

\* C30: after the constructor and after every execute() the stack of block
\* sequences, the stack of block indices and the stack of module flags of
\* the interpreter have the same length, and the stack of argument maps
\* has one entry for each module frame on the stack, so the current
\* argument map is that of the innermost module frame
C30_StacksAligned ==
    phase = "constructed" =>
       /\ Len(currentBlockIndexStack) = Len(currentBlocksStack)
       /\ Len(topLevelModuleStack) = Len(currentBlocksStack)
       /\ Len(argumentMapStack) =
             Cardinality({k \in 1..Len(topLevelModuleStack) : topLevelModuleStack[k]})

\* a run is in the body of an if or else case of a module entered by a
\* goto of the body of a case of the entry module: four frames, two of
\* them module frames, and two argument maps
C30_Witness ==
    /\ phase = "constructed"
    /\ calls >= 2
    /\ terminationStatus = Undefined
    /\ topLevelModuleStack = <<TRUE, FALSE, TRUE, FALSE>>
    /\ Len(argumentMapStack) = 2
    /\ Len(currentBlocksStack) = 4
====
